---- MODULE Spec2Model ----
(***************************************************************************)
(* A model of steiger's build dispatcher (builder/mod.rs), its registry    *)
(* publisher (registry.rs), the publish stage of the build command         *)
(* (cmd/build.rs) and its OCI layout loader (image/mod.rs).                *)
(***************************************************************************)
EXTENDS Integers, Sequences, FiniteSets, TLC

\* ---------------------------------------------------------------- bounds
MaxTargets == 2        \* services in one configuration
MaxInstances == 2      \* MetaBuild values constructed one after another
MaxLayers == 17        \* layers of the image of a stand-alone Registry::push
MaxArtifacts == 2      \* artifacts the publish stage of cmd::build::run gets
MaxBad == 1            \* layers of an image whose bytes match no descriptor
MaxStubLayers == 2     \* layers of an image published to the registry stub
MaxEntries == 2        \* manifests listed in index.json
MaxLoadLayers == 2     \* layers of a manifest in an OCI layout
MaxRepoLen == 3        \* characters of a repository string
MaxImages == 3         \* images of one artifact
MaxReleases == 2       \* releases of config.deploy
MaxOutput == 3         \* bytes a child process writes to one of its streams

\* ----------------------------------------------------- program constants
BufferLimit == 16      \* .buffer_unordered(16)

\* ------------------------------------------------------------- data model
Kinds == {"ko", "bazel", "docker"}      \* Build::Ko | Build::Bazel | Build::Docker
Names == 1..MaxTargets                  \* service / artifact names
\* Vec<Image>: an image is identified by the service whose build produced it.
ImageLists == {<<>>} \cup {<<i>> : i \in Names}

Pick(S) == CHOOSE x \in S : TRUE

\* Output { artifacts: HashMap<String, Vec<Image>> }: a function whose domain
\* is the set of artifact names present in the map.
Output == UNION {[S -> ImageLists] : S \in SUBSET Names}
Output_default == [n \in {} |-> <<>>]

\* HashMap::insert: the value stored under k becomes v.
insert(m, k, v) == [n \in (DOMAIN m) \cup {k} |-> IF n = k THEN v ELSE m[n]]

\* `for (name, images) in other.artifacts { self.artifacts.insert(name, images) }`
RECURSIVE merge_loop(_, _, _)
merge_loop(acc, other, todo) ==
    IF todo = {} THEN acc
    ELSE LET name == Pick(todo)
         IN merge_loop(insert(acc, name, other[name]), other, todo \ {name})

\* A slip of Output::merge: extend the list already stored under the name
\* instead of replacing it.
merge_concat(self_, other) ==
    [n \in (DOMAIN self_) \cup (DOMAIN other) |->
        IF n \in DOMAIN other
        THEN (IF n \in DOMAIN self_ THEN self_[n] \o other[n] ELSE other[n])
        ELSE self_[n]]

\* A slip of Output::merge: take over the other map as a whole.
merge_assign(self_, other) == other

\* Output::merge
merge(self_, other) == merge_loop(self_, other, DOMAIN other)

\* What a backend's build can return for a service on success: ko and docker
\* return exactly {service_name -> images}; bazel returns one entry per
\* artifact key of its own `targets` map, whatever those keys are.
BuilderOutputs(kind, service_name) ==
    IF kind = "bazel"
    THEN {[n \in S |-> <<service_name>>] : S \in SUBSET Names}
    ELSE {[n \in {service_name} |-> <<service_name>>]}

\* run_builder: take the cached builder or try_init one and cache it.
\* var is the Option<B> (None, or the handle try_init created); init is what
\* B::try_init() returns when it is called (None = Err).
None == [inst |-> 0, n |-> 0]

\* A slip of run_builder: call try_init a second time when it failed.
run_builder_retry(var, init) ==
    IF var # None
    THEN [ok |-> TRUE, var |-> var, builder |-> var, calls |-> 0]
    ELSE IF init # None
         THEN [ok |-> TRUE, var |-> init, builder |-> init, calls |-> 1]
         ELSE [ok |-> FALSE, var |-> var, builder |-> None, calls |-> 2]

run_builder(var, init) ==
    IF var # None
    THEN [ok |-> TRUE, var |-> var, builder |-> var, calls |-> 0]
    ELSE IF init # None
         THEN [ok |-> TRUE, var |-> init, builder |-> init, calls |-> 1]
         ELSE [ok |-> FALSE, var |-> var, builder |-> None, calls |-> 1]

VARIABLES
    inst,        \* which MetaBuild value this is (1 = first constructed)
    services,    \* config.services in iteration order: sequence of kinds
    self,        \* the MetaBuild's ko / bazel / docker Option fields
    pc,          \* position of MetaBuild::build: "spawn", "join", "done"
    idx,         \* next service of the for loop
    task,        \* per service: state of its spawned task
    taskRes,     \* per service: what its task returned
    taskBuilder, \* per service: the builder handle its task runs on
    spawned,     \* the set.spawn calls so far: backend and Context of each
    doneQ,       \* JoinSet: finished, not yet joined tasks, completion order
    joined,      \* the tasks join_next has handed out, in that order
    output,      \* the accumulated Output
    ret,         \* what MetaBuild::build returned
    initCalls    \* per kind: try_init calls made through this MetaBuild

bvars == <<inst, services, self, pc, idx, task, taskRes, taskBuilder, spawned, doneQ,
           joined, output, ret, initCalls>>

\* Arguments and result of a stand-alone Output::merge call.
VARIABLES mPrev, mOther, mSelf
mvars == <<mPrev, mOther, mSelf>>

\* Registry::push and the publish stage of cmd::build::run.
Arts == 1..MaxArtifacts       \* artifacts; each has its own reference
Digests == {1, 2}             \* manifest digests; 0 = the tag does not exist

VARIABLES
    push,     \* per artifact: the state of its Registry::push call
    regTag,   \* registry: per reference, the digest its tag points to
    regBlobs, \* registry: per repository, the layer blobs of the image it got
    regConfig, \* registry: per repository, it holds the image's config blob
    stub      \* the registry is a stub: it answers by what it holds, no errors

\* The publish stage of cmd::build::run.
VARIABLES
    rPc,         \* "idle", "spawn", "join", "done"
    rInput,      \* output.artifacts and what the spawn loop derives from it
    rEvents,     \* an events client and a build id are present
    rDoneQ,      \* JoinSet: finished, not yet joined push tasks
    rArtifacts,  \* the `artifacts` map: artifact -> reference, as inserted so far
    rOutputFile, \* whether output_file is Some(path), known once run reads it
    rPrinted,    \* the lines printed under "Pushed artifacts:"
    rWritten,    \* the builds written to the output file
    rRet         \* what run returned

pvars == <<push, regTag, regBlobs, regConfig, stub>>
rvars == <<rPc, rInput, rEvents, rOutputFile, rDoneQ, rArtifacts, rPrinted,
           rWritten, rRet>>

\* Two runs of cmd::build::run, one after the other, on the same registry.
VARIABLES
    runNo,       \* which run this is; 0 = no such scenario
    firstRun     \* what the first run pushed and reported

evars == <<runNo, firstRun>>

\* image::load_from_path
VARIABLES
    lLayout,     \* the OCI layout directory on disk
    lRet         \* what load_from_path returned

lvars == <<lLayout, lRet>>

\* One call of a function of the program that touches no other state:
\* registry::load_credentials, cmd::build::find_image.
VARIABLES
    callPc,      \* "idle", "call", "ret"
    callArgs,    \* the arguments, and what the environment holds
    callRet      \* what the call returned

cvars == <<callPc, callArgs, callRet>>

\* cmd::deploy::run with MetaDeployer, and the options main::run works with.
VARIABLES
    dep,         \* cmd::deploy::run: its position, the MetaDeployer, the JoinSet
    app,         \* main::run: the command's options and its position
    exe          \* exec::run_with_output: its position, the child, the pipes

dvars == <<dep, app, exe>>

NoPush == [pc |-> "idle", layers |-> 0, digest |-> 0, bad |-> 0, auth |-> FALSE,
           resolved |-> "-", codes |-> <<>>, remote |-> 0,
           pending |-> 0, probing |-> 0, uploading |-> 0,
           found |-> 0, notFound |-> 0, done |-> 0, uploads |-> 0,
           config |-> 0, configDone |-> FALSE, manifest |-> 0,
           failed |-> "-", ret |-> "none"]

\* Registry::push is entered for an image with `layers` layers and `digest`;
\* `bad` of the layers hold bytes whose sha256 is no digest of manifest.layers.
StartPush_noauth(layers, digest, bad) ==
    [NoPush EXCEPT !.pc = "resolve", !.layers = layers, !.digest = digest,
                   !.bad = bad, !.pending = layers]
StartPush(layers, digest, bad) ==
    [NoPush EXCEPT !.pc = "auth", !.layers = layers, !.digest = digest,
                   !.bad = bad, !.pending = layers]

NoBlobs == [a \in Arts |-> 0]
NoConfig == [a \in Arts |-> FALSE]
PushIdle ==
    /\ push = [a \in Arts |-> NoPush] /\ regTag = [a \in Arts |-> 0]
    /\ regBlobs = NoBlobs /\ regConfig = NoConfig /\ stub = FALSE
NoArtifacts == [a \in {} |-> <<>>]
RunIdle ==
    /\ rPc = "idle" /\ rInput = [a \in {} |-> 0] /\ rEvents = FALSE
    /\ rOutputFile = FALSE
    /\ rDoneQ = <<>> /\ rArtifacts = NoArtifacts /\ rRet = "none"
    /\ rPrinted = NoArtifacts /\ rWritten = NoArtifacts

NoRun == [artifacts |-> NoArtifacts, pushes |-> [a \in Arts |-> NoPush]]
E2EIdle == runNo = 0 /\ firstRun = NoRun
NoLayout == [index |-> "missing", manifests |-> <<>>, blobs |-> <<>>]
NoLoad == [ok |-> FALSE, err |-> "none", images |-> <<>>]
LoadIdle == lLayout = NoLayout /\ lRet = NoLoad
CallIdle == callPc = "idle" /\ callArgs = <<>> /\ callRet = <<>>

NoExec ==
    [pc |-> "idle", child |-> "none", out |-> 0, err |-> 0, code |-> 0,
     stdout |-> 0, stderr |-> 0, ret |-> <<>>]

Releases == 1..MaxReleases
NoDeploy ==
    [pc |-> "idle", releases |-> <<>>, helm |-> 0, inits |-> 0,
     checked |-> 0, validated |-> {}, idx |-> 1,
     task |-> [r \in Releases |-> "none"], res |-> [r \in Releases |-> "none"],
     doneQ |-> <<>>, errors |-> <<>>, unreachable |-> FALSE, ret |-> "none"]
\* repo is the --repo option, default_repo the config's default repo;
\* output_file is the argument cmd::build::run gets, "Any" while no caller has
\* fixed it; used is the repo run settles on, creds the repo it loaded
\* credentials for.
NoApp == [pc |-> "idle", repo |-> "None", default_repo |-> "None",
          output_file |-> "Any", used |-> "None", creds |-> "None",
          ret |-> "none"]
DeployIdle == dep = NoDeploy /\ app = NoApp /\ exe = NoExec

NoRes == [tag |-> "none", out |-> Output_default]
NoRet == [tag |-> "none", kind |-> "-", cause |-> "-", target |-> 0,
          out |-> Output_default]

\* MetaBuild::new: no builder is cached.
MetaBuild_new == [ko |-> None, bazel |-> None, docker |-> None]

Configs == UNION {[1..n -> Kinds] : n \in 0..MaxTargets}

BuildStart(i, cfg) ==
    /\ inst = i
    /\ services = cfg
    /\ self = MetaBuild_new
    /\ pc = "spawn"
    /\ idx = 1
    /\ task = [t \in Names |-> "none"]
    /\ taskRes = [t \in Names |-> NoRes]
    /\ taskBuilder = [t \in Names |-> None]
    /\ spawned = <<>>
    /\ doneQ = <<>>
    /\ joined = <<>>
    /\ output = Output_default
    /\ ret = NoRet
    /\ initCalls = [k \in Kinds |-> 0]

BuildIdle ==
    /\ inst = 0 /\ services = <<>> /\ self = MetaBuild_new /\ pc = "idle"
    /\ idx = 1
    /\ task = [t \in Names |-> "none"]
    /\ taskRes = [t \in Names |-> NoRes]
    /\ taskBuilder = [t \in Names |-> None]
    /\ spawned = <<>>
    /\ doneQ = <<>> /\ joined = <<>>
    /\ output = Output_default /\ ret = NoRet
    /\ initCalls = [k \in Kinds |-> 0]

MergeIdle == mPrev = Output_default /\ mOther = Output_default /\ mSelf = Output_default

BuildInit ==
    /\ \E cfg \in Configs : BuildStart(1, cfg)
    /\ MergeIdle /\ PushIdle /\ RunIdle /\ E2EIdle /\ LoadIdle /\ CallIdle /\ DeployIdle

\* Dropping the JoinSet aborts every task that has not finished.
DropSet(tk) == [t \in Names |-> IF tk[t] = "running" THEN "aborted" ELSE tk[t]]

\* A slip of the spawn loop that re-initializes the backend for every target.
SpawnVar_nocache(kind) == None

\* The Option<B> field handed to run_builder for a service of this kind.
SpawnVar(kind) == self[kind]

\* The platform string MetaBuild::build is called with.
BuildPlatform == <<"linux", "/", "amd64">>

\* A slip of the spawn loop: every Context carries the first target's name.
Context_new_first(name, platform) == [name |-> 1, platform |-> platform]

\* Context::new(name.clone(), platform.to_string(), ())
Context_new(name, platform) == [name |-> name, platform |-> platform]

\* One iteration of `for (name, service) in config.services.iter()`:
\* run_builder(...)? and set.spawn(...).
Spawn ==
    /\ pc = "spawn"
    /\ idx <= Len(services)
    /\ LET kind == services[idx]
           var == SpawnVar(kind)
           calls == initCalls["ko"] + initCalls["bazel"] + initCalls["docker"]
           \* B::try_init(): Err, or a handle no one else holds
           try_init == IF var = None
                       THEN {None, [inst |-> inst, n |-> calls + 1]}
                       ELSE {None}
       IN \E init \in try_init :
            LET r == run_builder(var, init) IN
            /\ initCalls' = [initCalls EXCEPT ![kind] = @ + r.calls]
            /\ self' = [self EXCEPT ![kind] = r.var]
            /\ IF r.ok
               THEN /\ task' = [task EXCEPT ![idx] = "running"]
                    /\ taskBuilder' = [taskBuilder EXCEPT ![idx] = r.builder]
                    /\ spawned' = Append(spawned,
                                         [backend |-> kind,
                                          ctx |-> Context_new(idx, BuildPlatform)])
                    /\ idx' = idx + 1
                    /\ UNCHANGED <<pc, ret>>
               ELSE /\ task' = DropSet(task)
                    /\ pc' = "done"
                    /\ ret' = [NoRet EXCEPT !.tag = "Err", !.kind = kind,
                                            !.cause = "init", !.target = idx]
                    /\ UNCHANGED <<taskBuilder, spawned, idx>>
    /\ UNCHANGED <<inst, services, taskRes, doneQ, joined, output>>
    /\ UNCHANGED <<mvars, pvars, rvars, evars, lvars, cvars, dvars>>

\* The for loop is over: `let mut output = Output::default();`
StartJoin ==
    /\ pc = "spawn"
    /\ idx > Len(services)
    /\ pc' = "join"
    /\ output' = Output_default
    /\ UNCHANGED <<inst, services, spawned, self, idx, task, taskRes, taskBuilder,
                   doneQ, joined, ret, initCalls>>
    /\ UNCHANGED <<mvars, pvars, rvars, evars, lvars, cvars, dvars>>

\* A spawned build task finishes: Ok(Output), Err(backend error) or a panic.
Finish(t, res) ==
    /\ pc \in {"spawn", "join"}
    /\ task[t] = "running"
    /\ task' = [task EXCEPT ![t] = "finished"]
    /\ taskRes' = [taskRes EXCEPT ![t] = res]
    /\ doneQ' = Append(doneQ, t)
    /\ UNCHANGED <<inst, services, spawned, self, pc, idx, taskBuilder, joined, output,
                   ret, initCalls>>
    /\ UNCHANGED <<mvars, pvars, rvars, evars, lvars, cvars, dvars>>

TaskOk == \E t \in DOMAIN services : \E out \in BuilderOutputs(services[t], t) :
              Finish(t, [tag |-> "ok", out |-> out])
TaskErr == \E t \in Names : Finish(t, [tag |-> "err", out |-> Output_default])
TaskPanic == \E t \in Names : Finish(t, [tag |-> "panic", out |-> Output_default])

\* `while let Some(Ok(result)) = set.join_next().await` with a task that
\* returned Ok: pb.inc(); output.merge(result?).
JoinOk ==
    /\ pc = "join"
    /\ doneQ # <<>>
    /\ LET t == Head(doneQ) IN
         /\ taskRes[t].tag = "ok"
         /\ output' = merge(output, taskRes[t].out)
         /\ task' = [task EXCEPT ![t] = "joined"]
    /\ doneQ' = Tail(doneQ)
    /\ joined' = Append(joined, Head(doneQ))
    /\ UNCHANGED <<inst, services, spawned, self, pc, idx, taskRes, taskBuilder, ret,
                   initCalls>>
    /\ UNCHANGED <<mvars, pvars, rvars, evars, lvars, cvars, dvars>>

\* ... with a task that returned Err: `result?` returns it from build, and
\* the JoinSet is dropped with the function's locals.
JoinErr ==
    /\ pc = "join"
    /\ doneQ # <<>>
    /\ LET t == Head(doneQ) IN
         /\ taskRes[t].tag = "err"
         /\ ret' = [NoRet EXCEPT !.tag = "Err", !.kind = services[t],
                                 !.cause = "build", !.target = t]
         /\ task' = DropSet([task EXCEPT ![t] = "joined"])
    /\ doneQ' = Tail(doneQ)
    /\ joined' = Append(joined, Head(doneQ))
    /\ pc' = "done"
    /\ UNCHANGED <<inst, services, spawned, self, idx, taskRes, taskBuilder, output,
                   initCalls>>
    /\ UNCHANGED <<mvars, pvars, rvars, evars, lvars, cvars, dvars>>

\* ... with a task that panicked: join_next yields Some(Err(JoinError)), the
\* pattern does not match, the loop ends and build returns Ok(output).
JoinPanic ==
    /\ pc = "join"
    /\ doneQ # <<>>
    /\ LET t == Head(doneQ) IN
         /\ taskRes[t].tag = "panic"
         /\ task' = DropSet([task EXCEPT ![t] = "joined"])
    /\ ret' = [NoRet EXCEPT !.tag = "Ok", !.out = output]
    /\ doneQ' = Tail(doneQ)
    /\ joined' = Append(joined, Head(doneQ))
    /\ pc' = "done"
    /\ UNCHANGED <<inst, services, spawned, self, idx, taskRes, taskBuilder, output,
                   initCalls>>
    /\ UNCHANGED <<mvars, pvars, rvars, evars, lvars, cvars, dvars>>

\* ... with an empty JoinSet: join_next yields None, build returns Ok(output).
JoinNone ==
    /\ pc = "join"
    /\ \A t \in Names : task[t] \in {"none", "joined"}
    /\ ret' = [NoRet EXCEPT !.tag = "Ok", !.out = output]
    /\ pc' = "done"
    /\ UNCHANGED <<inst, services, spawned, self, idx, task, taskRes, taskBuilder,
                   doneQ, joined, output, initCalls>>
    /\ UNCHANGED <<mvars, pvars, rvars, evars, lvars, cvars, dvars>>

\* The caller constructs another MetaBuild (MetaBuild::new) and builds again.
NewInstance ==
    /\ pc = "done"
    /\ inst < MaxInstances
    /\ \E cfg \in Configs :
         /\ inst' = inst + 1
         /\ services' = cfg
         /\ self' = MetaBuild_new
         /\ pc' = "spawn"
         /\ idx' = 1
         /\ task' = [t \in Names |-> "none"]
         /\ taskRes' = [t \in Names |-> NoRes]
         /\ taskBuilder' = [t \in Names |-> None]
         /\ spawned' = <<>>
         /\ doneQ' = <<>>
         /\ joined' = <<>>
         /\ output' = Output_default
         /\ ret' = NoRet
         /\ initCalls' = [k \in Kinds |-> 0]
    /\ UNCHANGED <<mvars, pvars, rvars, evars, lvars, cvars, dvars>>

BuildNext ==
    \/ Spawn \/ StartJoin
    \/ TaskOk \/ TaskErr \/ TaskPanic
    \/ JoinOk \/ JoinErr \/ JoinPanic \/ JoinNone
    \/ NewInstance

\* ------------------------------------------------ Output::merge on its own
MergeInit ==
    /\ BuildIdle /\ PushIdle /\ RunIdle /\ E2EIdle /\ LoadIdle /\ CallIdle /\ DeployIdle
    /\ mPrev = Output_default /\ mOther = Output_default /\ mSelf = Output_default

\* self.merge(other) on an Output that earlier merges built up.
MergeCall ==
    /\ \E other \in Output :
         /\ mPrev' = mSelf
         /\ mOther' = other
         /\ mSelf' = merge(mSelf, other)
    /\ UNCHANGED <<bvars, pvars, rvars, evars, lvars, cvars, dvars>>

MergeNext == MergeCall

\* ------------------------------------------------------- Registry::push
\* What client.fetch_manifest_digest can answer for a tag pointing to `tag`.
\* `errors` is envelope.errors of a RegistryError, in the order received.
FetchResponses(tag) ==
    (IF tag # 0
     THEN {[kind |-> "Ok", errors |-> <<>>, digest |-> tag]}
     ELSE {[kind |-> "ImageManifestNotFoundError", errors |-> <<>>, digest |-> 0],
           [kind |-> "RegistryError", errors |-> <<"ManifestUnknown">>, digest |-> 0]})
    \cup {[kind |-> "RegistryError", errors |-> <<"Unauthorized", "ManifestUnknown">>,
           digest |-> 0],
          [kind |-> "RegistryError", errors |-> <<>>, digest |-> 0],
          [kind |-> "ServerError", errors |-> <<>>, digest |-> 0]}

\* A slip of the match: every RegistryError counts as "not there".
first_is_manifest_unknown_any(errors) == TRUE

\* matches!(envelope.errors.first(), Some(e) if e.code == ManifestUnknown)
first_is_manifest_unknown(errors) ==
    errors # <<>> /\ Head(errors) = "ManifestUnknown"

\* What the digest lookup of artifact a can be answered: anything of the
\* above by a registry behind a network, the plain truth by the stub.
LookupResponses(a) ==
    IF stub
    THEN {r \in FetchResponses(regTag[a]) :
             r.kind \in {"Ok", "ImageManifestNotFoundError"}}
    ELSE FetchResponses(regTag[a])

\* Registry::try_resolve_digest
try_resolve_digest(resp) ==
    CASE resp.kind = "Ok" -> [ok |-> TRUE, digest |-> resp.digest]
      [] resp.kind = "ImageManifestNotFoundError" -> [ok |-> TRUE, digest |-> 0]
      [] resp.kind = "RegistryError" /\ first_is_manifest_unknown(resp.errors) ->
             [ok |-> TRUE, digest |-> 0]
      [] OTHER -> [ok |-> FALSE, digest |-> 0]

\* A slip of the skip test: never skip.
SkipPush_never(digest, image_digest) == FALSE

\* A slip of the skip test: the comparison is inverted.
SkipPush_mismatch(digest, image_digest) == digest # 0 /\ digest # image_digest

\* A slip of the skip test: skip whenever the reference exists.
SkipPush_exists(digest, image_digest) == digest # 0

\* `if let Some(digest) = ... { if digest == image.digest { return Ok(None) } }`
SkipPush(digest, image_digest) == digest # 0 /\ digest = image_digest

\* A slip of the limiter: one operation more than the limit is let in.
CanStart_slack(p) == p.probing + p.uploading <= BufferLimit

\* A slip of the limiter: no limit on the layer operations in flight.
CanStart_unbounded(p) == TRUE

\* buffer_unordered(16) starts the next layer future only below the limit.
CanStart(p) == p.probing + p.uploading < BufferLimit

\* A slip of the batch: go on once every layer operation was started.
LayersComplete_nowait(p) == p.pending = 0

\* try_for_each(...).await returns Ok once the stream is exhausted: no layer
\* is left to start and none is in flight.
LayersComplete(p) == p.pending = 0 /\ p.probing = 0 /\ p.uploading = 0

\* The push task of artifact a ends: inside cmd::build::run its result is
\* handed to the JoinSet.
TaskEnds(a) ==
    rDoneQ' = IF rPc = "idle" THEN rDoneQ ELSE Append(rDoneQ, a)

\* A slip of the error path: the error is noted, the push carries on.
Failed_continue(p, at) == [p EXCEPT !.ret = "Err", !.failed = at]

\* Registry::push returns Err from the `?` at stage `at`: whatever it had in
\* flight is dropped.
Failed(p, at) ==
    [p EXCEPT !.pc = "done", !.ret = "Err", !.failed = at,
              !.probing = 0, !.uploading = 0]

\* self.client.store_auth_if_needed(registry, &self.auth).await
StoreAuth(a) ==
    /\ push[a].pc = "auth"
    /\ push' = [push EXCEPT ![a].pc = "resolve", ![a].auth = TRUE]
    /\ UNCHANGED <<regTag, regBlobs, regConfig, stub, rvars, bvars, mvars, evars, lvars, cvars, dvars>>

\* self.try_resolve_digest(&self.auth, image_ref).await? and the skip test
ResolveDigest(a) ==
    /\ push[a].pc = "resolve"
    /\ \E resp \in LookupResponses(a) :
         LET r == try_resolve_digest(resp)
             p == [push[a] EXCEPT !.resolved = resp.kind, !.codes = resp.errors,
                                  !.remote = r.digest]
         IN IF ~r.ok
            THEN push' = [push EXCEPT ![a] = Failed(p, "resolve")] /\ TaskEnds(a)
            ELSE IF SkipPush(r.digest, p.digest)
            THEN /\ push' = [push EXCEPT ![a] = [p EXCEPT !.pc = "done", !.ret = "Skipped"]]
                 /\ TaskEnds(a)
            ELSE /\ push' = [push EXCEPT ![a] = [p EXCEPT !.pc = "layers"]]
                 /\ UNCHANGED rDoneQ
    /\ UNCHANGED <<regTag, regBlobs, regConfig, stub, rPc, rInput, rEvents, rOutputFile, rArtifacts, rPrinted, rWritten, rRet, bvars, mvars, evars, lvars, cvars, dvars>>

\* The stream hands the next layer to buffer_unordered, which starts its
\* future: client.pull_blob_stream_partial(image_ref, desc, 0, Some(1)).
StartLayer(a) ==
    /\ push[a].pc = "layers"
    /\ push[a].pending > push[a].bad
    /\ CanStart(push[a])
    /\ push' = [push EXCEPT ![a].pending = @ - 1, ![a].probing = @ + 1]
    /\ UNCHANGED <<regTag, regBlobs, regConfig, stub, rvars, bvars, mvars, evars, lvars, cvars, dvars>>

\* The layer future finds no descriptor for the sha256 of its bytes:
\* `.find(|l| l.digest == digest).unwrap()` panics, and the panic unwinds
\* through push.
LayerPanic(a) ==
    /\ push[a].pc = "layers"
    /\ push[a].pending > 0
    /\ push[a].bad > 0
    /\ CanStart(push[a])
    /\ push' = [push EXCEPT ![a].pc = "done", ![a].ret = "Panic",
                            ![a].probing = 0, ![a].uploading = 0]
    /\ TaskEnds(a)
    /\ UNCHANGED <<regTag, regBlobs, regConfig, stub, rPc, rInput, rEvents, rOutputFile, rArtifacts, rPrinted, rWritten, rRet, bvars, mvars, evars, lvars, cvars, dvars>>

\* A slip of the match: the layer is uploaded whatever the probe answered.
match_probe_upload(answer) == "push_blob"

\* The arms of `match client.pull_blob_stream_partial(...).await`.
match_probe(answer) ==
    CASE answer = "Ok" -> "done"
      [] answer = "NotFound" -> "push_blob"
      [] OTHER -> "err"

\* What the probe of a layer can be answered. The stub holds regBlobs[a]
\* layer blobs of the image, of which this push uploaded done - found itself;
\* a layer is probed before this push uploads it, so the stub has it only if
\* it got it before this push.
ProbeAnswers(a) ==
    IF ~stub THEN {"Ok", "NotFound", "Error"}
    ELSE LET before == regBlobs[a] - (push[a].done - push[a].found)
         IN IF before = 0 THEN {"NotFound"}
            ELSE IF before >= push[a].layers THEN {"Ok"}
            ELSE {"Ok", "NotFound"}

\* The probe of one layer in flight answers.
Probe(a, answer) ==
    /\ push[a].pc = "layers"
    /\ push[a].probing > 0
    /\ answer \in ProbeAnswers(a)
    /\ LET arm == match_probe(answer)
           p == [push[a] EXCEPT !.probing = @ - 1,
                    !.found = IF answer = "Ok" THEN @ + 1 ELSE @,
                    !.notFound = IF answer = "NotFound" THEN @ + 1 ELSE @]
       IN CASE arm = "done" ->
                 /\ push' = [push EXCEPT ![a] = [p EXCEPT !.done = @ + 1]]
                 /\ UNCHANGED rDoneQ
            [] arm = "push_blob" ->
                 /\ push' = [push EXCEPT ![a] = [p EXCEPT !.uploading = @ + 1,
                                                          !.uploads = @ + 1]]
                 /\ UNCHANGED rDoneQ
            [] OTHER ->
                 /\ push' = [push EXCEPT ![a] = Failed(p, "probe")]
                 /\ TaskEnds(a)
    /\ UNCHANGED <<regTag, regBlobs, regConfig, stub, rPc, rInput, rEvents, rOutputFile, rArtifacts, rPrinted, rWritten, rRet, bvars, mvars, evars, lvars, cvars, dvars>>

\* The probe answers Ok(_): the blob is there, the layer is done.
ProbeOk(a) == Probe(a, "Ok")

\* The probe answers ServerError { code: 404 }: client.push_blob(...) starts.
ProbeNotFound(a) == Probe(a, "NotFound")

\* The probe answers any other error: try_for_each returns it, push returns.
ProbeErr(a) == Probe(a, "Error")

\* A layer's push_blob succeeds.
UploadOk(a) ==
    /\ push[a].pc = "layers"
    /\ push[a].uploading > 0
    /\ push' = [push EXCEPT ![a].uploading = @ - 1, ![a].done = @ + 1]
    /\ regBlobs' = [regBlobs EXCEPT ![a] = @ + 1]
    /\ UNCHANGED <<regTag, regConfig, stub, rvars, bvars, mvars, evars, lvars, cvars, dvars>>

\* A layer's push_blob fails.
UploadErr(a) ==
    /\ ~stub
    /\ push[a].pc = "layers"
    /\ push[a].uploading > 0
    /\ push' = [push EXCEPT ![a] = Failed(push[a], "upload")]
    /\ TaskEnds(a)
    /\ UNCHANGED <<regTag, regBlobs, regConfig, stub, rPc, rInput, rEvents, rOutputFile, rArtifacts, rPrinted, rWritten, rRet, bvars, mvars, evars, lvars, cvars, dvars>>

\* After the layer batch push calls push_blob for the config blob, whatever
\* the registry holds: no blob_exists precedes it.
config_upload_probed(p, held) ==
    IF held THEN [p EXCEPT !.pc = "config"]
    ELSE [p EXCEPT !.pc = "config", !.config = @ + 1]
config_upload(p, held) == [p EXCEPT !.pc = "config", !.config = @ + 1]

\* The layer batch is over: push_blob of the config blob starts.
PushConfig(a) ==
    /\ push[a].pc = "layers"
    /\ LayersComplete(push[a])
    /\ push' = [push EXCEPT ![a] = config_upload(push[a], regConfig[a])]
    /\ UNCHANGED <<regTag, regBlobs, regConfig, stub, rvars, bvars, mvars, evars, lvars, cvars, dvars>>

\* The config upload succeeds: push_manifest starts.
ConfigOk(a) ==
    /\ push[a].pc = "config"
    /\ push' = [push EXCEPT ![a].pc = "manifest", ![a].configDone = TRUE,
                            ![a].manifest = @ + 1]
    /\ regConfig' = [regConfig EXCEPT ![a] = TRUE]
    /\ UNCHANGED <<regTag, regBlobs, stub, rvars, bvars, mvars, evars, lvars, cvars, dvars>>

ConfigErr(a) ==
    /\ ~stub
    /\ push[a].pc = "config"
    /\ push' = [push EXCEPT ![a] = Failed(push[a], "config")]
    /\ TaskEnds(a)
    /\ UNCHANGED <<regTag, regBlobs, regConfig, stub, rPc, rInput, rEvents, rOutputFile, rArtifacts, rPrinted, rWritten, rRet, bvars, mvars, evars, lvars, cvars, dvars>>

\* push_manifest succeeds: the tag now points to the pushed manifest, and
\* push returns Ok(Some(PushResponse)).
ManifestOk(a) ==
    /\ push[a].pc = "manifest"
    /\ push' = [push EXCEPT ![a].pc = "done", ![a].ret = "Pushed"]
    /\ regTag' = [regTag EXCEPT ![a] = push[a].digest]
    /\ TaskEnds(a)
    /\ UNCHANGED <<regBlobs, regConfig, stub, rPc, rInput, rEvents, rOutputFile, rArtifacts, rPrinted, rWritten, rRet, bvars, mvars, evars, lvars, cvars, dvars>>

ManifestErr(a) ==
    /\ ~stub
    /\ push[a].pc = "manifest"
    /\ push' = [push EXCEPT ![a] = Failed(push[a], "manifest")]
    /\ TaskEnds(a)
    /\ UNCHANGED <<regTag, regBlobs, regConfig, stub, rPc, rInput, rEvents, rOutputFile, rArtifacts, rPrinted, rWritten, rRet, bvars, mvars, evars, lvars, cvars, dvars>>

PAuth == \E a \in Arts : StoreAuth(a)
PResolve == \E a \in Arts : ResolveDigest(a)
PStartLayer == \E a \in Arts : StartLayer(a)
PLayerPanic == \E a \in Arts : LayerPanic(a)
PProbeOk == \E a \in Arts : ProbeOk(a)
PProbeNotFound == \E a \in Arts : ProbeNotFound(a)
PProbeErr == \E a \in Arts : ProbeErr(a)
PUploadOk == \E a \in Arts : UploadOk(a)
PUploadErr == \E a \in Arts : UploadErr(a)
PPushConfig == \E a \in Arts : PushConfig(a)
PConfigOk == \E a \in Arts : ConfigOk(a)
PConfigErr == \E a \in Arts : ConfigErr(a)
PManifestOk == \E a \in Arts : ManifestOk(a)
PManifestErr == \E a \in Arts : ManifestErr(a)

\* One Registry::push call on its own.
PushInit ==
    /\ BuildIdle /\ MergeIdle /\ RunIdle /\ E2EIdle /\ LoadIdle /\ CallIdle /\ DeployIdle
    /\ regBlobs = NoBlobs /\ stub = FALSE
    /\ \E held \in BOOLEAN : regConfig = [a \in Arts |-> a = 1 /\ held]
    /\ \E l \in 0..MaxLayers, d \in Digests, tag \in {0} \cup Digests,
          bad \in 0..MaxBad :
         /\ bad <= l
         /\ push = [a \in Arts |-> IF a = 1 THEN StartPush(l, d, bad) ELSE NoPush]
         /\ regTag = [a \in Arts |-> IF a = 1 THEN tag ELSE 0]

PushNext ==
    \/ PAuth \/ PResolve \/ PStartLayer \/ PLayerPanic
    \/ PProbeOk \/ PProbeNotFound \/ PProbeErr
    \/ PUploadOk \/ PUploadErr
    \/ PPushConfig \/ PConfigOk \/ PConfigErr
    \/ PManifestOk \/ PManifestErr

\* ------------------------------------- cmd::build::run, the publish stage
\* An image list as find_image sees it: per image, whether its platform is
\* the requested one ("target"), another one ("other") or None ("none").
RECURSIVE position(_, _, _)
position(images, tag, i) ==
    IF i > Len(images) THEN 0
    ELSE IF images[i] = tag THEN i ELSE position(images, tag, i + 1)

\* A slip of find_image: the first image that has the requested platform or
\* none at all.
find_image_first(images) ==
    LET S == {i \in DOMAIN images : images[i] \in {"target", "none"}}
    IN IF S = {} THEN 0 ELSE CHOOSE i \in S : \A j \in S : i <= j

\* find_image: the first image of the requested platform, else the first
\* image without a platform, else Err(NoImage) (0).
find_image(images) ==
    LET n == position(images, "target", 1)
    IN IF n # 0 THEN n ELSE position(images, "none", 1)

\* What the spawn loop gets for one artifact: its image list, whether
\* "{repo}/{artifact}:{tag}" parses as a Reference, and the layers of the
\* image that find_image selects (a single layer in this stage; images with
\* many layers are pushed under SpecPush) and how many of them hold bytes
\* that match no layer descriptor.
RunInputs ==
    {[images |-> il, refOk |-> TRUE, layers |-> 1, bad |-> 0] :
        il \in {<<"other">>, <<"none", "target">>}}
    \cup {[images |-> <<"target">>, refOk |-> TRUE, layers |-> 1, bad |-> 1],
          [images |-> <<"target">>, refOk |-> FALSE, layers |-> 1, bad |-> 0]}

\* In this stage every image has the same digest; a tag either does not
\* exist or already points to it.
RunDigest == Pick(Digests)

\* format!("{repo}/{artifact}:{tag}@{}", image.digest), as its parts
output_ref_nodigest(repo, artifact, tag, digest) == <<repo, "/", artifact, ":", tag>>

output_ref(repo, artifact, tag, digest) ==
    <<repo, "/", artifact, ":", tag, "@", digest>>

RunRepo == "registry.example/org"
RunTag == "v1"

RunInit ==
    /\ BuildIdle /\ MergeIdle /\ E2EIdle /\ LoadIdle /\ CallIdle /\ DeployIdle
    /\ regBlobs = NoBlobs /\ regConfig = NoConfig /\ stub = FALSE
    /\ rPc = "spawn"
    /\ rInput \in UNION {[S -> RunInputs] : S \in SUBSET Arts}
    /\ rEvents \in BOOLEAN
    /\ rOutputFile = FALSE
    /\ rDoneQ = <<>> /\ rArtifacts = NoArtifacts /\ rRet = "none"
    /\ rPrinted = NoArtifacts /\ rWritten = NoArtifacts
    /\ push = [a \in Arts |-> NoPush]
    /\ regTag \in [Arts -> {0, RunDigest}]
    /\ \A a \in Arts \ DOMAIN rInput : regTag[a] = 0

\* run returns: the JoinSet is dropped, which aborts the push tasks that
\* have not finished, together with whatever they have in flight.
DropPushes(ps) ==
    [a \in Arts |->
        IF ps[a].pc \in {"idle", "done"} THEN ps[a]
        ELSE [ps[a] EXCEPT !.pc = "aborted", !.probing = 0, !.uploading = 0]]

\* One iteration of `for (artifact, images) in output.artifacts`.
RunSpawn ==
    /\ rPc = "spawn"
    /\ \E a \in DOMAIN rInput :
         /\ push[a].pc = "idle"
         /\ IF find_image(rInput[a].images) = 0
            THEN /\ rRet' = "NoImage" /\ rPc' = "done"
                 /\ push' = DropPushes(push)
            ELSE IF ~rInput[a].refOk
            THEN /\ rRet' = "Parse" /\ rPc' = "done"
                 /\ push' = DropPushes(push)
            ELSE /\ push' = [push EXCEPT ![a] =
                                StartPush(rInput[a].layers, RunDigest, rInput[a].bad)]
                 /\ UNCHANGED <<rRet, rPc>>
    /\ UNCHANGED <<regTag, regBlobs, regConfig, stub, rInput, rEvents, rOutputFile, rDoneQ, rArtifacts,
                   rPrinted, rWritten, bvars, mvars, evars, lvars, cvars, dvars>>

\* The for loop is over.
RunStartJoin ==
    /\ rPc = "spawn"
    /\ \A a \in DOMAIN rInput : push[a].pc # "idle"
    /\ rPc' = "join"
    /\ UNCHANGED <<pvars, rInput, rEvents, rOutputFile, rDoneQ, rArtifacts,
                   rPrinted, rWritten, rRet, bvars, mvars, evars, lvars, cvars, dvars>>

\* The task of artifact a returned Ok((artifact, output_ref)), output_ref
\* being the string built before the task was spawned.
TaskUri(a) == output_ref(RunRepo, a, RunTag, push[a].digest)

\* join_next hands out a push task that returned Ok((artifact, output_ref)):
\* artifacts.insert(...), create_event(...)?, progress.inc().
RunJoinOk ==
    /\ rPc = "join"
    /\ rDoneQ # <<>>
    /\ push[Head(rDoneQ)].ret \in {"Skipped", "Pushed"}
    /\ rArtifacts' = insert(rArtifacts, Head(rDoneQ), TaskUri(Head(rDoneQ)))
    /\ rDoneQ' = Tail(rDoneQ)
    /\ UNCHANGED <<pvars, rPc, rInput, rEvents, rOutputFile, rPrinted, rWritten,
                   rRet, bvars, mvars, evars, lvars, cvars, dvars>>

\* ... and create_event fails: `?` returns the error from run.
RunJoinEventErr ==
    /\ rPc = "join"
    /\ rEvents
    /\ rDoneQ # <<>>
    /\ push[Head(rDoneQ)].ret \in {"Skipped", "Pushed"}
    /\ rArtifacts' = insert(rArtifacts, Head(rDoneQ), TaskUri(Head(rDoneQ)))
    /\ rDoneQ' = Tail(rDoneQ)
    /\ rRet' = "BuildEvent" /\ rPc' = "done"
    /\ push' = DropPushes(push)
    /\ UNCHANGED <<regTag, regBlobs, regConfig, stub, rInput, rEvents, rOutputFile, rPrinted, rWritten,
                   bvars, mvars, evars, lvars, cvars, dvars>>

\* join_next hands out a push task that returned Err(PushError): `result?`
\* returns it from run.
RunJoinErr ==
    /\ rPc = "join"
    /\ rDoneQ # <<>>
    /\ push[Head(rDoneQ)].ret = "Err"
    /\ rDoneQ' = Tail(rDoneQ)
    /\ rRet' = "Push" /\ rPc' = "done"
    /\ push' = DropPushes(push)
    /\ UNCHANGED <<regTag, regBlobs, regConfig, stub, rInput, rEvents, rOutputFile, rArtifacts, rPrinted,
                   rWritten, bvars, mvars, evars, lvars, cvars, dvars>>

\* join_next hands out Some(Err(JoinError)), a push task that panicked: the
\* pattern `Some(Ok(result))` does not match and the while loop ends.
RunJoinPanic ==
    /\ rPc = "join"
    /\ rDoneQ # <<>>
    /\ push[Head(rDoneQ)].ret = "Panic"
    /\ rDoneQ' = Tail(rDoneQ)
    /\ rPc' = "after"
    /\ UNCHANGED <<pvars, rInput, rEvents, rOutputFile, rArtifacts, rPrinted,
                   rWritten, rRet, bvars, mvars, evars, lvars, cvars, dvars>>

\* join_next yields None, the set is empty: the while loop ends.
RunJoinNone ==
    /\ rPc = "join"
    /\ rDoneQ = <<>>
    /\ \A a \in DOMAIN rInput : push[a].pc = "done"
    /\ rPc' = "after"
    /\ UNCHANGED <<pvars, rInput, rEvents, rOutputFile, rDoneQ, rArtifacts,
                   rPrinted, rWritten, rRet, bvars, mvars, evars, lvars, cvars, dvars>>

\* The rest of run: the Completed event, the printed list, the output file,
\* each fallible step returning its error; on return the JoinSet is dropped.
\* The argument output_file is read only here, and which it is is drawn here.
RunFinish ==
    /\ rPc = "after"
    /\ \/ /\ rEvents
          /\ rRet' = "BuildEvent"
          /\ UNCHANGED <<rOutputFile, rPrinted, rWritten>>
       \/ /\ rPrinted' = rArtifacts
          /\ \/ /\ app.output_file # "None"
                /\ rOutputFile' = TRUE
                /\ rRet' = "WriteOutput"
                /\ UNCHANGED rWritten
             \/ /\ app.output_file # "None"
                /\ rOutputFile' = TRUE
                /\ rRet' = "Ok"
                /\ rWritten' = rArtifacts
             \/ /\ app.output_file # "Some"
                /\ rOutputFile' = FALSE
                /\ rRet' = "Ok"
                /\ UNCHANGED rWritten
    /\ rPc' = "done"
    /\ push' = DropPushes(push)
    /\ UNCHANGED <<regTag, regBlobs, regConfig, stub, rInput, rEvents, rDoneQ, rArtifacts,
                   bvars, mvars, evars, lvars, cvars, dvars>>

RunNext ==
    \/ RunSpawn \/ RunStartJoin
    \/ RunJoinOk \/ RunJoinEventErr \/ RunJoinErr \/ RunJoinPanic \/ RunJoinNone
    \/ RunFinish
    \/ PAuth \/ PResolve \/ PStartLayer \/ PLayerPanic
    \/ PProbeOk \/ PProbeNotFound \/ PProbeErr
    \/ PUploadOk \/ PUploadErr
    \/ PPushConfig \/ PConfigOk \/ PConfigErr
    \/ PManifestOk \/ PManifestErr

\* ------------------- two runs against a registry stub that starts empty
StubInputs ==
    {[images |-> <<"target">>, refOk |-> TRUE, layers |-> l, bad |-> 0] :
        l \in 0..MaxStubLayers}

RepublishInit ==
    /\ BuildIdle /\ MergeIdle /\ LoadIdle /\ CallIdle /\ DeployIdle
    /\ rPc = "spawn"
    /\ rInput \in UNION {[S -> StubInputs] : S \in SUBSET Arts}
    /\ rEvents = FALSE
    /\ rOutputFile = FALSE
    /\ rDoneQ = <<>> /\ rArtifacts = NoArtifacts /\ rRet = "none"
    /\ rPrinted = NoArtifacts /\ rWritten = NoArtifacts
    /\ push = [a \in Arts |-> NoPush]
    /\ regTag = [a \in Arts |-> 0]
    /\ regBlobs = NoBlobs /\ regConfig = NoConfig /\ stub = TRUE
    /\ runNo = 1 /\ firstRun = NoRun

\* The first run returned Ok; the same command is run again on the same
\* build output.
RunAgain ==
    /\ runNo = 1 /\ rPc = "done" /\ rRet = "Ok"
    /\ runNo' = 2
    /\ firstRun' = [artifacts |-> rArtifacts, pushes |-> push]
    /\ rPc' = "spawn"
    /\ push' = [a \in Arts |-> NoPush]
    /\ rDoneQ' = <<>> /\ rArtifacts' = NoArtifacts /\ rRet' = "none"
    /\ rPrinted' = NoArtifacts /\ rWritten' = NoArtifacts
    /\ rOutputFile' = FALSE
    /\ UNCHANGED <<regTag, regBlobs, regConfig, stub, rInput, rEvents, bvars, mvars, lvars, cvars, dvars>>

RepublishNext ==
    \/ RunSpawn \/ RunStartJoin \/ RunJoinOk \/ RunJoinNone \/ RunFinish
    \/ RunAgain
    \/ PAuth \/ PResolve \/ PStartLayer \/ PProbeNotFound \/ PUploadOk
    \/ PPushConfig \/ PConfigOk \/ PManifestOk

\* ------------------------------------------------ cmd::build::find_image
\* Image.platform: None, or a Platform with os, architecture and variant.
NoPlatform == [os |-> "-", architecture |-> "-", variant |-> "-"]
ImagePlatforms ==
    {NoPlatform,
     [os |-> "linux", architecture |-> "amd64", variant |-> ""],
     [os |-> "linux", architecture |-> "arm64", variant |-> "v8"],
     [os |-> "linux", architecture |-> "arm64", variant |-> ""]}

\* The platform string handed to find_image, as its parts.
Requests ==
    {<<"linux", "/", "amd64">>, <<"linux", "/", "arm64">>,
     <<"linux", "/", "arm64", "/", "v8">>}

\* format!("{}/{}", p.os, p.architecture)
os_arch(p) == <<p.os, "/", p.architecture>>

\* How the two position closures of find_image see one image.
platform_tag(image, platform) ==
    IF image.platform = NoPlatform THEN "none"
    ELSE IF os_arch(image.platform) = platform THEN "target"
    ELSE "other"

NoImage == [id |-> 0, platform |-> NoPlatform]
find_image_call(images, platform) ==
    LET n == find_image([i \in DOMAIN images |-> platform_tag(images[i], platform)])
    IN IF n = 0
       THEN [ok |-> FALSE, err |-> <<"NoImage", platform>>, image |-> NoImage]
       ELSE [ok |-> TRUE, err |-> <<>>, image |-> images[n]]

\* The images of one artifact, each known by its place in the list.
FindInit ==
    /\ BuildIdle /\ MergeIdle /\ PushIdle /\ RunIdle /\ E2EIdle /\ LoadIdle
    /\ DeployIdle
    /\ callPc = "call" /\ callRet = <<>>
    /\ \E n \in 0..MaxImages, platform \in Requests :
         \E ps \in [1..n -> ImagePlatforms] :
            callArgs = [images |-> [i \in 1..n |-> [id |-> i, platform |-> ps[i]]],
                        platform |-> platform]

FindImage ==
    /\ callPc = "call"
    /\ callPc' = "ret"
    /\ callRet' = find_image_call(callArgs.images, callArgs.platform)
    /\ UNCHANGED <<callArgs, bvars, mvars, pvars, rvars, evars, lvars, dvars>>

FindNext == FindImage

\* ------------------------------------------- registry::load_credentials
\* A repository string is a sequence of characters; '/' separates the host
\* from the path.
Chars == {"a", "b", "/"}
Repos == UNION {[1..n -> Chars] : n \in 0..MaxRepoLen}
Hosts == {h \in Repos : \A i \in DOMAIN h : h[i] # "/"}

\* A slip of parse_host: the whole repository string is taken as the host.
parse_host_whole(repo) == repo

\* split('/').next(): the text before the first '/', the whole text if it
\* has none; it is always Some.
RECURSIVE split_next(_)
split_next(s) ==
    IF s = <<>> \/ Head(s) = "/" THEN <<>>
    ELSE <<Head(s)>> \o split_next(Tail(s))

\* repo.split('/').next().unwrap_or_default()
parse_host(repo) == split_next(repo)

\* What docker_credential::get_credential can return: a credential, or a
\* CredentialRetrievalError.
Retrieved ==
    {"IdentityToken", "UsernamePassword",
     "HelperFailure", "ConfigNotFound", "NoCredentialConfigured",
     "ConfigReadError", "CredentialDecodingError",
     "HelperCommunicationError", "MalformedHelperResponse"}

\* The docker configuration of the machine answers `answer` for the server
\* `host` and has nothing configured for any other server.
get_credential(config, server) ==
    IF server = config.host THEN config.answer ELSE "NoCredentialConfigured"

NoAuth == <<>>
load_credentials(repo, config) ==
    LET c == get_credential(config, parse_host(repo))
    IN CASE c = "IdentityToken" ->
              [tag |-> "Panic", auth |-> NoAuth, err |-> "-"]
         [] c = "UsernamePassword" ->
              [tag |-> "Ok", auth |-> <<"Basic", "user", "pass">>, err |-> "-"]
         [] c \in {"HelperFailure", "ConfigNotFound", "NoCredentialConfigured"} ->
              [tag |-> "Ok", auth |-> <<"Anonymous">>, err |-> "-"]
         [] OTHER -> [tag |-> "Err", auth |-> NoAuth, err |-> c]

CredInit ==
    /\ BuildIdle /\ MergeIdle /\ PushIdle /\ RunIdle /\ E2EIdle /\ LoadIdle
    /\ DeployIdle
    /\ callPc = "call" /\ callRet = <<>>
    /\ \E repo \in Repos, host \in Hosts, answer \in Retrieved :
         callArgs = [repo |-> repo, config |-> [host |-> host, answer |-> answer]]

LoadCredentials ==
    /\ callPc = "call"
    /\ callPc' = "ret"
    /\ callRet' = load_credentials(callArgs.repo, callArgs.config)
    /\ UNCHANGED <<callArgs, bvars, mvars, pvars, rvars, evars, lvars, dvars>>

CredNext == LoadCredentials

\* ------------------------------------------------ image::load_from_path
\* Blob bytes are sequences; sha256 is collision-free, so a digest is
\* identified with the bytes it is the hash of.
sha256(bytes) == [alg |-> "sha256", hash |-> bytes]

Garbage == <<9, 9, 9>>                  \* bytes that are no blob of any image
ConfigBytes == <<3>>
LayerBytes == {<<1>>, <<2, 2>>}

\* Option<BTreeMap<String, String>>: the annotations of a descriptor.
NoAnnotations == [some |-> FALSE, map |-> {}]
Annotations(map) == [some |-> TRUE, map |-> map]

\* An OCI descriptor for a blob, as a builder that wrote `bytes` records it.
Descriptor(bytes, media_type, annotations) ==
    [digest |-> sha256(bytes), size |-> Len(bytes), media_type |-> media_type,
     annotations |-> annotations]

LayerDescs ==
    {Descriptor(<<1>>, "layer.tar", NoAnnotations),
     Descriptor(<<2, 2>>, "layer.tar+gzip", Annotations({<<"title", "app">>}))}
ConfigDesc == Descriptor(ConfigBytes, "config+json", Annotations({<<"created", "never">>}))

\* OciImageManifest values, and the files that hold one: JSON text in
\* canonical form or with other key order and whitespace.
Manifests ==
    {[layers |-> ls, config |-> ConfigDesc] :
        ls \in UNION {[1..n -> LayerDescs] : n \in 0..MaxLoadLayers}}
Forms == {"canonical", "pretty"}

Absent == [kind |-> "absent"]
ManifestFiles ==
    {Absent, [kind |-> "bytes", data |-> Garbage]}
    \cup {[kind |-> "json", logical |-> m, form |-> f] : m \in Manifests, f \in Forms}
BlobFiles(digest) ==
    {Absent, [kind |-> "bytes", data |-> digest.hash],
     [kind |-> "bytes", data |-> Garbage]}

\* The entries index.json can list: the digest recorded for the manifest
\* (which names its file under blobs/) and the platform recorded for it.
ManifestDigests == {[alg |-> "sha256", hash |-> <<101>>], [alg |-> "sha256", hash |-> <<102>>]}
IndexEntries ==
    {[digest |-> [alg |-> "sha256", hash |-> <<101>>], platform |-> "none"],
     [digest |-> [alg |-> "sha256", hash |-> <<102>>], platform |-> "target"]}
BlobDigests == {d.digest : d \in LayerDescs \cup {ConfigDesc}}

\* The layout directory has index.json ("missing", "malformed" or "ok" with
\* its manifests list) and, under blobs/, a file or none for each digest that
\* an index entry or a descriptor can name.
Layout(index, manifests, manifest_files, blob_files) ==
    [index |-> index, manifests |-> manifests,
     blobs |-> manifest_files @@ blob_files]

\* BlobStore::read_blob: tokio::fs::read of blobs/<alg>/<hash>
read_blob(blobs, digest) ==
    IF blobs[digest].kind = "absent"
    THEN [ok |-> FALSE, data |-> Absent]
    ELSE [ok |-> TRUE, data |-> blobs[digest]]

\* serde_json::from_slice::<OciImageManifest>: the value a JSON text stands
\* for, whatever its key order and whitespace.
from_slice(file) ==
    IF file.kind = "json"
    THEN [ok |-> TRUE, value |-> file.logical]
    ELSE [ok |-> FALSE, value |-> Absent]

\* serde_json with olpc_cjson::CanonicalFormatter: the canonical JSON text.
cjson(manifest) == [kind |-> "json", logical |-> manifest, form |-> "canonical"]

\* compute_digest
compute_digest(manifest) == sha256(cjson(manifest))

\* A slip of the loader: the digest is taken over the bytes found on disk.
image_digest_raw(file, manifest) == sha256(file)

\* `let digest = compute_digest(&manifest)?;`
image_digest(file, manifest) == compute_digest(manifest)

\* A slip of the error path: the loader stops and returns what it has.
fail_partial(err, images) == [ok |-> TRUE, err |-> "-", images |-> images]

\* A `?` of load_from_path: Err(ImageError), `images` is dropped.
fail(err, images) == [ok |-> FALSE, err |-> err, images |-> <<>>]

\* A slip of the loader: the layer is built with no annotations.
ImageLayer_new_bare(data, media_type, annotations) ==
    [data |-> data, media_type |-> media_type, annotations |-> NoAnnotations]

\* ImageLayer::new(data, layer.media_type.clone(), layer.annotations.clone())
ImageLayer_new(data, media_type, annotations) ==
    [data |-> data, media_type |-> media_type, annotations |-> annotations]

\* `for layer in manifest.layers.iter()`
RECURSIVE load_layers(_, _, _, _)
load_layers(blobs, descs, i, layers) ==
    IF i > Len(descs) THEN [ok |-> TRUE, layers |-> layers]
    ELSE LET r == read_blob(blobs, descs[i].digest)
         IN IF ~r.ok THEN [ok |-> FALSE, layers |-> <<>>]
            ELSE load_layers(blobs, descs, i + 1,
                     Append(layers, ImageLayer_new(r.data.data,
                                                   descs[i].media_type,
                                                   descs[i].annotations)))

\* `for entry in index.manifests`
RECURSIVE load_loop(_, _, _)
load_loop(layout, i, images) ==
    IF i > Len(layout.manifests) THEN [ok |-> TRUE, err |-> "-", images |-> images]
    ELSE
    LET entry == layout.manifests[i]
        file == read_blob(layout.blobs, entry.digest)
        manifest == from_slice(file.data)
        layers == load_layers(layout.blobs, manifest.value.layers, 1, <<>>)
        config == read_blob(layout.blobs, manifest.value.config.digest)
    IN IF ~file.ok THEN fail("IO", images)
       ELSE IF ~manifest.ok THEN fail("Serde", images)
       ELSE IF ~layers.ok THEN fail("IO", images)
       ELSE IF ~config.ok THEN fail("IO", images)
       ELSE load_loop(layout, i + 1,
                Append(images,
                    [manifest |-> manifest.value,
                     layers |-> layers.layers,
                     platform |-> entry.platform,
                     config |-> [data |-> config.data.data,
                                 media_type |-> manifest.value.config.media_type,
                                 annotations |-> manifest.value.config.annotations],
                     digest |-> image_digest(file.data, manifest.value)]))

load_from_path(layout) ==
    IF layout.index = "missing" THEN fail("IO", <<>>)
    ELSE IF layout.index = "malformed" THEN fail("Serde", <<>>)
    ELSE load_loop(layout, 1, <<>>)

LoadInit ==
    /\ BuildIdle /\ MergeIdle /\ PushIdle /\ RunIdle /\ E2EIdle /\ CallIdle /\ DeployIdle
    /\ \E ix \in {"missing", "malformed", "ok"},
          es \in UNION {[1..n -> IndexEntries] : n \in 0..MaxEntries},
          m \in [ManifestDigests -> ManifestFiles],
          b \in [BlobDigests -> UNION {BlobFiles(d) : d \in BlobDigests}] :
         /\ ix # "ok" => es = <<>>
         /\ \A d \in BlobDigests : b[d] \in BlobFiles(d)
         /\ lLayout = Layout(ix, es, m, b)
    /\ lRet = NoLoad

\* One call of load_from_path on the directory.
Load ==
    /\ lRet = NoLoad
    /\ lRet' = load_from_path(lLayout)
    /\ UNCHANGED <<lLayout, bvars, mvars, pvars, rvars, evars, cvars, dvars>>

LoadNext == Load

\* ---------------------------------------------- exec::run_with_output
\* What an OS pipe holds before a write to it blocks (64 KiB on Linux),
\* scaled down to bytes of the model.
PipeCapacity == 2

\* spawn sets stdout and stderr to Stdio::piped() and nobody reads them until
\* wait() has returned: a write finds room only below the pipe's capacity.
pipe_room(held) == held < PipeCapacity

\* The child of the command: it writes `out` bytes to stdout and `err` bytes
\* to stderr, in an order of its own, and then exits with `code`.
ExecInit ==
    /\ BuildIdle /\ MergeIdle /\ PushIdle /\ RunIdle /\ E2EIdle /\ LoadIdle
    /\ CallIdle /\ dep = NoDeploy /\ app = NoApp
    /\ \E out \in 0..MaxOutput, err \in 0..MaxOutput, code \in {0, 1} :
         exe = [NoExec EXCEPT !.pc = "spawn", !.out = out, !.err = err,
                              !.code = code]

\* `let mut child = spawn(cmd).await?;`
ExecSpawn ==
    /\ exe.pc = "spawn"
    /\ \/ exe' = [exe EXCEPT !.pc = "done", !.ret = <<"Err", "IO">>]
       \/ exe' = [exe EXCEPT !.pc = "wait", !.child = "running"]
    /\ UNCHANGED <<dep, app, bvars, mvars, pvars, rvars, evars, lvars, cvars>>

\* The child writes a byte to its stdout; the write blocks while the pipe is
\* full.
ChildWriteOut ==
    /\ exe.child = "running"
    /\ exe.out > 0
    /\ pipe_room(exe.stdout)
    /\ exe' = [exe EXCEPT !.out = @ - 1, !.stdout = @ + 1]
    /\ UNCHANGED <<dep, app, bvars, mvars, pvars, rvars, evars, lvars, cvars>>

\* The child writes a byte to its stderr.
ChildWriteErr ==
    /\ exe.child = "running"
    /\ exe.err > 0
    /\ pipe_room(exe.stderr)
    /\ exe' = [exe EXCEPT !.err = @ - 1, !.stderr = @ + 1]
    /\ UNCHANGED <<dep, app, bvars, mvars, pvars, rvars, evars, lvars, cvars>>

\* The child has written all its output and exits.
ChildExit ==
    /\ exe.child = "running"
    /\ exe.out = 0 /\ exe.err = 0
    /\ exe' = [exe EXCEPT !.child = "exited"]
    /\ UNCHANGED <<dep, app, bvars, mvars, pvars, rvars, evars, lvars, cvars>>

\* `let status = child.inner.wait().await?;` completes when the child has
\* exited.
ExecWait ==
    /\ exe.pc = "wait"
    /\ exe.child = "exited"
    /\ exe' = [exe EXCEPT !.pc = "read"]
    /\ UNCHANGED <<dep, app, bvars, mvars, pvars, rvars, evars, lvars, cvars>>

\* On success child.stdout() is read to its end and returned; otherwise
\* child.stderr() is read and returned in ExitError::Status.
ExecRead ==
    /\ exe.pc = "read"
    /\ IF exe.code = 0
       THEN exe' = [exe EXCEPT !.pc = "done", !.ret = <<"Ok", exe.stdout>>,
                               !.stdout = 0]
       ELSE exe' = [exe EXCEPT !.pc = "done",
                               !.ret = <<"Err", "Status", exe.code, exe.stderr>>,
                               !.stderr = 0]
    /\ UNCHANGED <<dep, app, bvars, mvars, pvars, rvars, evars, lvars, cvars>>

ExecNext ==
    \/ ExecSpawn
    \/ ChildWriteOut \/ ChildWriteErr \/ ChildExit
    \/ ExecWait \/ ExecRead

\* ------------------------------------- cmd::deploy::run, MetaDeployer
\* config.deploy: the releases in the map's iteration order; of a release the
\* model keeps what its chart path is on disk.
ChartPaths == {"dir", "file", "missing"}
DeployConfigs == UNION {[1..n -> ChartPaths] : n \in 0..MaxReleases}

\* HelmDeployer::validate: tokio::fs::metadata(&input.path)? and is_dir()
helm_validate(path) ==
    CASE path = "dir" -> "Ok"
      [] path = "file" -> "NotADir"
      [] OTHER -> "Chart"

\* A slip of validate: the deployer it initialized is not kept.
validate_cache_forget(helm, init) == helm

\* `if self.helm.is_none() { self.helm = Some(HelmDeployer::try_init()?) }`
validate_cache(helm, init) == IF helm = 0 THEN init ELSE helm

\* ensure: the clone of the cached deployer, or unreachable!() on None
ensure(deploy) == IF deploy = 0 THEN "unreachable" ELSE "clone"

\* deploy::run has read the input file: MetaDeployer::new and validate start.
DeployStart(cfg) ==
    [NoDeploy EXCEPT !.pc = "validate", !.releases = cfg]

\* read_input(input_file)?: the file is read and parsed, or run returns
\* Error::Input.
ReadInput ==
    /\ dep.pc = "read"
    /\ \/ dep' = [dep EXCEPT !.pc = "done", !.ret = "Input"]
       \/ dep' = [dep EXCEPT !.pc = "validate"]
    /\ UNCHANGED <<app, exe, bvars, mvars, pvars, rvars, evars, lvars, cvars>>

\* One iteration of `for release in self.config.deploy.values()` in validate.
\* try_init is which::which("helm"): it finds the binary or not.
Validate ==
    /\ dep.pc = "validate"
    /\ dep.checked < Len(dep.releases)
    /\ LET r == dep.checked + 1 IN
       \E found \in BOOLEAN :
         IF dep.helm = 0 /\ ~found
         THEN dep' = [dep EXCEPT !.pc = "done", !.ret = "Helm",
                                 !.inits = @ + 1]
         ELSE LET helm == validate_cache(dep.helm, 1)
                  d == [dep EXCEPT !.helm = helm,
                                   !.inits = IF dep.helm = 0 THEN @ + 1 ELSE @]
              IN IF ensure(helm) = "unreachable"
                 THEN dep' = [d EXCEPT !.pc = "done", !.unreachable = TRUE,
                                       !.ret = "Panic"]
                 ELSE IF helm_validate(dep.releases[r]) # "Ok"
                 THEN dep' = [d EXCEPT !.pc = "done",
                                       !.ret = helm_validate(dep.releases[r])]
                 ELSE dep' = [d EXCEPT !.checked = r,
                                       !.validated = @ \cup {r}]
    /\ UNCHANGED <<app, exe, bvars, mvars, pvars, rvars, evars, lvars, cvars>>

\* validate returns Ok(()): deploy starts.
ValidateOk ==
    /\ dep.pc = "validate"
    /\ dep.checked = Len(dep.releases)
    /\ dep' = [dep EXCEPT !.pc = "spawn"]
    /\ UNCHANGED <<app, exe, bvars, mvars, pvars, rvars, evars, lvars, cvars>>

\* One iteration of `for (name, release) in self.config.deploy` in deploy:
\* set.spawn(ensure(&self.helm).deploy(..)).
DeploySpawn ==
    /\ dep.pc = "spawn"
    /\ dep.idx <= Len(dep.releases)
    /\ IF ensure(dep.helm) = "unreachable"
       THEN dep' = [dep EXCEPT !.pc = "done", !.unreachable = TRUE,
                               !.ret = "Panic"]
       ELSE dep' = [dep EXCEPT !.task[dep.idx] = "running", !.idx = @ + 1]
    /\ UNCHANGED <<app, exe, bvars, mvars, pvars, rvars, evars, lvars, cvars>>

\* The for loop is over: `let mut errors = vec![];`
DeployStartJoin ==
    /\ dep.pc = "spawn"
    /\ dep.idx > Len(dep.releases)
    /\ dep' = [dep EXCEPT !.pc = "join"]
    /\ UNCHANGED <<app, exe, bvars, mvars, pvars, rvars, evars, lvars, cvars>>

\* The deployment of release r ends: helm upgrade --install succeeded, or it
\* could not be run or exited with a failure status.
DeployTaskEnds(r, res) ==
    /\ dep.pc \in {"spawn", "join"}
    /\ dep.task[r] = "running"
    /\ dep' = [dep EXCEPT !.task[r] = "finished", !.res[r] = res,
                          !.doneQ = Append(@, r)]
    /\ UNCHANGED <<app, exe, bvars, mvars, pvars, rvars, evars, lvars, cvars>>

DeployTaskOk == \E r \in Releases : DeployTaskEnds(r, "ok")
DeployTaskErr == \E r \in Releases : DeployTaskEnds(r, "err")

\* A slip of the join loop: the first error ends it.
join_result_first(d, r) ==
    IF d.res[r] = "err"
    THEN [d EXCEPT !.errors = Append(@, r), !.pc = "done", !.ret = "Multi"]
    ELSE d

\* `if let Err(e) = result { pb.fail(..); errors.push(e); }`
join_result(d, r) ==
    IF d.res[r] = "err" THEN [d EXCEPT !.errors = Append(@, r)] ELSE d

\* `while let Some(Ok(result)) = set.join_next().await`: one deployment is
\* handed out.
DeployJoin ==
    /\ dep.pc = "join"
    /\ dep.doneQ # <<>>
    /\ LET r == Head(dep.doneQ) IN
         dep' = join_result([dep EXCEPT !.task[r] = "joined",
                                        !.doneQ = Tail(@)], r)
    /\ UNCHANGED <<app, exe, bvars, mvars, pvars, rvars, evars, lvars, cvars>>

\* join_next yields None: deploy returns Err(Multi) if errors were collected,
\* Ok(()) otherwise.
DeployJoinNone ==
    /\ dep.pc = "join"
    /\ dep.doneQ = <<>>
    /\ \A r \in Releases : dep.task[r] \in {"none", "joined"}
    /\ dep' = [dep EXCEPT !.pc = "done",
                          !.ret = IF dep.errors # <<>> THEN "Multi" ELSE "Ok"]
    /\ UNCHANGED <<app, exe, bvars, mvars, pvars, rvars, evars, lvars, cvars>>

\* The deploy command on its own.
DeployInit ==
    /\ BuildIdle /\ MergeIdle /\ PushIdle /\ RunIdle /\ E2EIdle /\ LoadIdle
    /\ CallIdle /\ app = NoApp /\ exe = NoExec
    /\ \E cfg \in DeployConfigs :
         dep = [DeployStart(cfg) EXCEPT !.pc = "read"]

DeployNext ==
    \/ ReadInput \/ Validate \/ ValidateOk
    \/ DeploySpawn \/ DeployStartJoin
    \/ DeployTaskOk \/ DeployTaskErr
    \/ DeployJoin \/ DeployJoinNone

\* ------------------------------- cmd::build::run, build and publish stage
\* run as a whole: `builder.build(..).await?`, then the repository and the
\* credentials, then the publish stage. No events client is configured and
\* the registry is one that answers by what it holds.
\* What the spawn loop gets for an artifact of the build output: its images
\* are of the requested platform and have one layer each.
BuiltInput(images) ==
    [images |-> [i \in DOMAIN images |-> "target"], refOk |-> TRUE,
     layers |-> 1, bad |-> 0]

WholeInit ==
    /\ \E cfg \in Configs : BuildStart(1, cfg)
    /\ MergeIdle /\ E2EIdle /\ LoadIdle /\ CallIdle
    /\ dep = NoDeploy /\ exe = NoExec
    /\ \E repo \in {"None", "cli"}, default_repo \in {"None", "cfg"} :
         app = [NoApp EXCEPT !.pc = "build", !.repo = repo,
                             !.default_repo = default_repo]
    /\ push = [a \in Arts |-> NoPush] /\ regTag = [a \in Arts |-> 0]
    /\ regBlobs = NoBlobs /\ regConfig = NoConfig /\ stub = TRUE
    /\ rPc = "build" /\ rInput = [a \in {} |-> 0] /\ rEvents = FALSE
    /\ rOutputFile = FALSE
    /\ rDoneQ = <<>> /\ rArtifacts = NoArtifacts /\ rRet = "none"
    /\ rPrinted = NoArtifacts /\ rWritten = NoArtifacts

\* A slip of run: the config's default repo is looked at first.
repo_or_default_first(repo, default_repo) ==
    IF default_repo # "None" THEN default_repo ELSE repo

\* `repo.or(default_repo)`
repo_or(repo, default_repo) ==
    IF repo # "None" THEN repo ELSE default_repo

\* builder.build(..).await has returned. `?` returns its error from run;
\* otherwise run goes on with output: if `repo.or(default_repo)` is None it
\* returns Ok, load_credentials(&repo)? may return an error, and else the
\* spawn loop starts over output.artifacts.
BuildReturns ==
    /\ rPc = "build"
    /\ pc = "done"
    /\ IF ret.tag = "Err"
       THEN /\ rRet' = "Build" /\ rPc' = "done"
            /\ UNCHANGED <<rInput, app>>
       ELSE LET repo == repo_or(app.repo, app.default_repo) IN
            IF repo = "None"
            THEN /\ rRet' = "Ok" /\ rPc' = "done"
                 /\ app' = [app EXCEPT !.used = repo]
                 /\ UNCHANGED rInput
            ELSE /\ app' = [app EXCEPT !.used = repo, !.creds = repo]
                 /\ \/ /\ rRet' = "Credential" /\ rPc' = "done"
                       /\ UNCHANGED rInput
                    \/ /\ rInput' = [a \in (DOMAIN ret.out) \cap Arts |->
                                        BuiltInput(ret.out[a])]
                       /\ rPc' = "spawn"
                       /\ UNCHANGED rRet
    /\ UNCHANGED <<pvars, rEvents, rOutputFile, rDoneQ, rArtifacts, rPrinted,
                   rWritten, bvars, mvars, evars, lvars, cvars, dep, exe>>

WholeNext ==
    \/ Spawn \/ StartJoin
    \/ TaskOk \/ TaskErr \/ TaskPanic
    \/ JoinOk \/ JoinErr \/ JoinPanic \/ JoinNone
    \/ BuildReturns
    \/ RunSpawn \/ RunStartJoin \/ RunJoinOk \/ RunJoinNone \/ RunFinish
    \/ PAuth \/ PResolve \/ PStartLayer \/ PProbeNotFound \/ PUploadOk
    \/ PPushConfig \/ PConfigOk \/ PManifestOk

\* ------------------------------------------------ main::run, Cmd::Run
\* A slip of main: the check for a repo is left out.
repo_required_never(repo, default_repo) == FALSE

\* `if repo.is_none() && config.default_repo.is_none()`
repo_required(repo, default_repo) == repo = "None" /\ default_repo = "None"

\* The run command with its options read: nothing has started. The output
\* file of the build stage is the temporary file, so always Some.
MainInit ==
    /\ BuildIdle /\ MergeIdle /\ RunIdle /\ E2EIdle /\ LoadIdle /\ CallIdle
    /\ push = [a \in Arts |-> NoPush] /\ regTag = [a \in Arts |-> 0]
    /\ regBlobs = NoBlobs /\ regConfig = NoConfig /\ stub = TRUE
    /\ dep = NoDeploy /\ exe = NoExec
    /\ \E repo \in {"None", "cli"}, default_repo \in {"None", "cfg"} :
         app = [NoApp EXCEPT !.pc = "start", !.repo = repo,
                             !.default_repo = default_repo,
                             !.output_file = "Some"]

\* TempFile::new()? and config::load_from_path(..)?, then the check for a
\* repo, then cmd::build::run is called: MetaBuild::new(config) and build
\* start on the services of the config.
MainStart ==
    /\ app.pc = "start"
    /\ \/ /\ \E e \in {"TempFile", "Config"} :
               app' = [app EXCEPT !.pc = "done", !.ret = e]
          /\ UNCHANGED <<inst, services, pc, rPc>>
       \/ IF repo_required(app.repo, app.default_repo)
          THEN /\ app' = [app EXCEPT !.pc = "done", !.ret = "RepoRequired"]
               /\ UNCHANGED <<inst, services, pc, rPc>>
          ELSE /\ app' = [app EXCEPT !.pc = "build"]
               /\ \E cfg \in Configs :
                    inst' = 1 /\ services' = cfg /\ pc' = "spawn"
               /\ rPc' = "build"
    /\ UNCHANGED <<self, idx, task, taskRes, taskBuilder, spawned, doneQ,
                   joined, output, ret, initCalls>>
    /\ UNCHANGED <<rInput, rEvents, rOutputFile, rDoneQ, rArtifacts, rPrinted,
                   rWritten, rRet>>
    /\ UNCHANGED <<dep, exe, mvars, pvars, evars, lvars, cvars>>

\* cmd::build::run has returned: `?` passes its error on; otherwise
\* dest.sync_all()? and cmd::deploy::run(config, dest.file_path()) is called.
\* The releases of the config are drawn here, where they are first used.
MainBuildReturns ==
    /\ app.pc = "build"
    /\ rPc = "done"
    /\ IF rRet # "Ok"
       THEN /\ app' = [app EXCEPT !.pc = "done", !.ret = "Build"]
            /\ UNCHANGED dep
       ELSE \/ /\ app' = [app EXCEPT !.pc = "done", !.ret = "IO"]
               /\ UNCHANGED dep
            \/ /\ app' = [app EXCEPT !.pc = "deploy"]
               /\ \E cfg \in DeployConfigs :
                    dep' = [DeployStart(cfg) EXCEPT !.pc = "read"]
    /\ UNCHANGED <<exe, bvars, mvars, pvars, rvars, evars, lvars, cvars>>

\* cmd::deploy::run has returned.
MainDeployReturns ==
    /\ app.pc = "deploy"
    /\ dep.pc = "done"
    /\ app' = [app EXCEPT !.pc = "done",
                          !.ret = IF dep.ret = "Ok" THEN "Ok" ELSE "Deploy"]
    /\ UNCHANGED <<dep, exe, bvars, mvars, pvars, rvars, evars, lvars, cvars>>

MainNext ==
    \/ MainStart
    \/ Spawn \/ StartJoin
    \/ TaskOk \/ TaskErr \/ TaskPanic
    \/ JoinOk \/ JoinErr \/ JoinPanic \/ JoinNone
    \/ BuildReturns
    \/ RunSpawn \/ RunStartJoin \/ RunJoinOk \/ RunJoinNone \/ RunFinish
    \/ PAuth \/ PResolve \/ PStartLayer \/ PProbeNotFound \/ PUploadOk
    \/ PPushConfig \/ PConfigOk \/ PManifestOk
    \/ MainBuildReturns
    \/ ReadInput \/ Validate \/ ValidateOk
    \/ DeploySpawn \/ DeployStartJoin
    \/ DeployTaskOk \/ DeployTaskErr
    \/ DeployJoin \/ DeployJoinNone
    \/ MainDeployReturns

\* ------------------------------------------- pushes running side by side
\* The spawn loop of cmd::build::run has spawned one push task per artifact of
\* S; each task owns its Registry (with_config per task) and its own layer
\* stream. Every image has one layer more than the limiter lets in, and the
\* registry holds the layer blobs of an earlier attempt but not the tag.
StreamLayers == BufferLimit + 1

ConcurrentInit ==
    /\ BuildIdle /\ MergeIdle /\ RunIdle /\ E2EIdle /\ LoadIdle /\ CallIdle /\ DeployIdle
    /\ stub = TRUE
    /\ regTag = [a \in Arts |-> 0] /\ regConfig = NoConfig
    /\ \E S \in SUBSET Arts :
         /\ S # {}
         /\ push = [a \in Arts |-> IF a \in S THEN StartPush(StreamLayers, 1, 0)
                                   ELSE NoPush]
         /\ regBlobs = [a \in Arts |-> IF a \in S THEN StreamLayers ELSE 0]

ConcurrentNext ==
    \/ PAuth \/ PResolve \/ PStartLayer \/ PProbeOk
    \/ PPushConfig \/ PConfigOk \/ PManifestOk

vars == <<bvars, mvars, pvars, rvars, evars, lvars, cvars, dvars>>
Init == BuildInit
Next == BuildNext
Spec == Init /\ [][Next]_vars
SpecMerge == MergeInit /\ [][MergeNext]_vars
SpecPush == PushInit /\ [][PushNext]_vars
SpecRun == RunInit /\ [][RunNext]_vars
SpecRepublish == RepublishInit /\ [][RepublishNext]_vars
SpecLoad == LoadInit /\ [][LoadNext]_vars
SpecConcurrent == ConcurrentInit /\ [][ConcurrentNext]_vars
SpecCred == CredInit /\ [][CredNext]_vars
SpecFind == FindInit /\ [][FindNext]_vars
SpecWhole == WholeInit /\ [][WholeNext]_vars
SpecDeploy == DeployInit /\ [][DeployNext]_vars
SpecMain == MainInit /\ [][MainNext]_vars
SpecExec == ExecInit /\ [][ExecNext]_vars

\* --------------------------------------------------------------- claims
Spawned == {t \in DOMAIN services : task[t] # "none"}
BuildFailed == pc = "done" /\ ret.tag = "Err" /\ ret.cause = "build"
InitFailed == ret.tag = "Err" /\ ret.cause = "init"

\* C1: when a build task returns an error, the dispatcher still waits for
\* every other spawned task to run to completion before it returns; no
\* sibling build is cancelled.
C1_SiblingsComplete ==
    BuildFailed => \A t \in Spawned : task[t] \in {"finished", "joined"}

\* C2: the error MetaBuild::build returns is produced after all per-target
\* failures were collected and identifies every failing target.
C2_AllFailuresReported ==
    BuildFailed =>
        /\ \A t \in Spawned : task[t] = "joined"
        /\ {t \in Spawned : taskRes[t].tag = "err"} \subseteq {ret.target}

\* C3: when the push of one artifact fails, only that artifact's publish is
\* aborted: the push tasks of the sibling artifacts run to completion and are
\* not cancelled.
C3_SiblingPushesComplete ==
    (rPc = "done" /\ rRet = "Push") =>
        \A a \in DOMAIN rInput : push[a].pc = "done"

Probes(p) == p.layers - p.pending
SameDigest(p) == p.remote # 0 /\ p.remote = p.digest

\* C4: a push of an image whose digest is the one the registry reports for
\* the reference makes no blob probe, no blob upload, no config upload and no
\* manifest upload, and returns the skip result.
C4_SkipDoesNothing ==
    \A a \in Arts : SameDigest(push[a]) =>
        /\ push[a].pc = "done" /\ push[a].ret = "Skipped"
        /\ Probes(push[a]) = 0 /\ push[a].uploads = 0
        /\ push[a].probing = 0 /\ push[a].uploading = 0 /\ push[a].done = 0
        /\ push[a].config = 0 /\ push[a].manifest = 0

C4_Witness ==
    \E a \in Arts :
        SameDigest(push[a]) /\ push[a].layers > 0 /\ push[a].ret = "Skipped"

\* C5: the manifest upload starts only after every layer operation of the
\* image has completed successfully and the config upload has succeeded; no
\* blob is in flight or failed when the manifest is pushed.
C5_ManifestLast ==
    \A a \in Arts : (push[a].manifest > 0 \/ push[a].pc = "manifest") =>
        /\ push[a].manifest = 1
        /\ push[a].pending = 0 /\ push[a].probing = 0 /\ push[a].uploading = 0
        /\ push[a].done = push[a].layers
        /\ push[a].config = 1 /\ push[a].configDone

C5_Witness ==
    \E a \in Arts :
        /\ push[a].pc = "manifest"
        /\ push[a].layers >= 2
        /\ push[a].uploads >= 1 /\ push[a].uploads < push[a].layers

\* C6: in one Registry::push call the layer operations in flight at the same
\* time never exceed 16, however many layers the image has.
C6_AtMost16InFlight ==
    \A a \in Arts : push[a].probing + push[a].uploading <= 16

C6_Witness ==
    \E a \in Arts :
        /\ push[a].probing + push[a].uploading = 16
        /\ push[a].uploading > 0
        /\ push[a].pending > 0

\* C7: try_init is called at most once per backend kind within one MetaBuild;
\* every task of a kind runs on a clone of the handle cached for that kind; a
\* fresh MetaBuild has nothing cached and its handles come from no other
\* instance.
C7_InitOncePerKind ==
    /\ \A k \in Kinds : initCalls[k] <= 1
    /\ \A t \in Spawned :
         /\ taskBuilder[t] # None
         /\ taskBuilder[t] = self[services[t]]
         /\ taskBuilder[t].inst = inst
    /\ \A k \in Kinds : self[k] # None => self[k].inst = inst /\ initCalls[k] = 1
    /\ (pc = "spawn" /\ idx = 1) => self = MetaBuild_new

C7_Witness ==
    /\ inst = 2
    /\ \E t1, t2 \in Spawned :
         /\ t1 < t2 /\ services[t1] = services[t2]
         /\ taskBuilder[t1] = taskBuilder[t2]
         /\ initCalls[services[t1]] = 1

\* C8: a failing try_init ends MetaBuild::build at once with that error:
\* the initialization is not retried, neither that target nor a later one gets
\* a build task, and no Output is returned.
C8_InitFailFast ==
    InitFailed =>
        /\ pc = "done"
        /\ ret.kind = services[ret.target]
        /\ initCalls[ret.kind] = 1
        /\ self[ret.kind] = None
        /\ \A t \in Names : t >= ret.target => task[t] = "none"
        /\ idx = ret.target
        /\ ret.out = Output_default /\ joined = <<>>

C8_Witness ==
    /\ InitFailed
    /\ ret.target = 2 /\ Len(services) > 1
    /\ task[1] # "none"

\* C9: Output::merge is last-writer-wins per artifact name: every name of
\* `other` ends up with exactly other's list, every name only in `self` keeps
\* its list, and no other name appears.
C9_MergeLastWriterWins ==
    /\ DOMAIN mSelf = (DOMAIN mPrev) \cup (DOMAIN mOther)
    /\ \A n \in DOMAIN mOther : mSelf[n] = mOther[n]
    /\ \A n \in (DOMAIN mPrev) \ (DOMAIN mOther) : mSelf[n] = mPrev[n]

C9_Witness ==
    /\ \E n \in (DOMAIN mPrev) \cap (DOMAIN mOther) :
         mPrev[n] # <<>> /\ mOther[n] # <<>> /\ mPrev[n] # mOther[n]
    /\ \E n \in (DOMAIN mPrev) \ (DOMAIN mOther) : mSelf[n] # <<>>

\* C10: when all build tasks succeed with pairwise disjoint artifact names,
\* the Output of MetaBuild::build is the union of the task outputs, whatever
\* the order in which the tasks completed.
AllSucceeded == \A t \in DOMAIN services : taskRes[t].tag = "ok"
DisjointNames ==
    \A t1, t2 \in DOMAIN services :
        t1 # t2 => (DOMAIN taskRes[t1].out) \cap (DOMAIN taskRes[t2].out) = {}
UnionOfTaskOutputs ==
    [n \in UNION {DOMAIN taskRes[t].out : t \in DOMAIN services} |->
        taskRes[Pick({t \in DOMAIN services : n \in DOMAIN taskRes[t].out})].out[n]]
C10_DisjointUnion ==
    (pc = "done" /\ ret.tag = "Ok" /\ AllSucceeded /\ DisjointNames)
        => ret.out = UnionOfTaskOutputs

C10_Witness ==
    /\ pc = "done" /\ ret.tag = "Ok" /\ AllSucceeded /\ DisjointNames
    /\ Len(services) = 2
    /\ joined = <<2, 1>>
    /\ DOMAIN ret.out = {1, 2}

\* The digest lookup of p was answered "not there": ImageManifestNotFoundError,
\* or a RegistryError whose first error code is ManifestUnknown.
NotThere(p) ==
    \/ p.resolved = "ImageManifestNotFoundError"
    \/ p.resolved = "RegistryError" /\ p.codes # <<>> /\ p.codes[1] = "ManifestUnknown"

\* C13: in the existence check an ImageManifestNotFound error or a registry
\* error with the code ManifestUnknown means "no image yet" and the push goes
\* on to the upload steps; every other failure of the lookup makes push return
\* an error with no blob probe or upload, no config and no manifest upload.
C13_ExistenceCheck ==
    \A a \in Arts : push[a].resolved \notin {"-", "Ok"} =>
        IF NotThere(push[a])
        THEN /\ push[a].failed # "resolve"
             /\ push[a].remote = 0
             /\ push[a].ret # "Skipped"
             /\ push[a].pc \in {"layers", "config", "manifest", "done", "aborted"}
        ELSE /\ push[a].pc = "done" /\ push[a].ret = "Err"
             /\ push[a].failed = "resolve"
             /\ Probes(push[a]) = 0 /\ push[a].uploads = 0
             /\ push[a].config = 0 /\ push[a].manifest = 0

C13_Witness ==
    \E a \in Arts :
        /\ push[a].resolved = "RegistryError" /\ NotThere(push[a])
        /\ push[a].uploads > 0 /\ push[a].ret = "Pushed"

\* C19: in a push that is not skipped every started layer is probed first; a
\* layer whose probe succeeds is not uploaded, a layer whose probe answers 404
\* is uploaded exactly once, and any other probe error uploads nothing for
\* the layer and is returned by push.
C19_ProbeThenUpload ==
    \A a \in Arts :
        /\ push[a].uploads = push[a].notFound
        /\ push[a].found + push[a].notFound <= Probes(push[a])
        /\ push[a].pc = "layers" =>
             push[a].found + push[a].notFound + push[a].probing = Probes(push[a])
        /\ push[a].pc = "layers" =>
             push[a].done = push[a].found + push[a].uploads - push[a].uploading
        /\ push[a].failed = "probe" =>
             /\ push[a].pc = "done" /\ push[a].ret = "Err"
             /\ push[a].found + push[a].notFound < Probes(push[a])

C19_Witness ==
    \E a \in Arts :
        /\ push[a].found > 0 /\ push[a].notFound > 0
        /\ push[a].failed = "probe"

LayerFailed(p) == p.failed \in {"probe", "upload"}

\* C20: once the probe or the upload of a layer has failed, push has returned
\* an error, no further layer operation of that image starts (nothing of the
\* push changes any more), and neither the config blob nor the manifest is
\* uploaded.
C20_LayerFailFast ==
    /\ [](\A a \in Arts : LayerFailed(push[a]) =>
            /\ push[a].pc = "done" /\ push[a].ret = "Err"
            /\ push[a].probing = 0 /\ push[a].uploading = 0
            /\ push[a].config = 0 /\ push[a].manifest = 0)
    /\ [][\A a \in Arts : LayerFailed(push[a]) => push'[a] = push[a]]_vars

C20_Witness ==
    \E a \in Arts :
        /\ push[a].failed = "upload"
        /\ push[a].pending > 0 /\ push[a].done > 0

Published(a) == push[a].ret \in {"Pushed", "Skipped"}

C16_ReferenceFormat ==
    \A a \in DOMAIN rArtifacts :
        /\ Published(a)
        /\ rArtifacts[a] = <<RunRepo, "/", a, ":", RunTag, "@", push[a].digest>>
        /\ a \in DOMAIN rPrinted => rPrinted[a] = rArtifacts[a]
        /\ a \in DOMAIN rWritten => rWritten[a] = rArtifacts[a]
        /\ push[a].ret = "Skipped" =>
             /\ regTag[a] # 0
             /\ rArtifacts[a][7] = regTag[a]

C16_Witness ==
    /\ rPc = "done" /\ rRet = "Ok"
    /\ \E a, b \in DOMAIN rWritten :
         push[a].ret = "Skipped" /\ push[b].ret = "Pushed"

\* C18: when run returns Ok after the publish stage, the artifact -> reference
\* map, and the builds of the output file when one is requested, hold exactly
\* one entry for every artifact name of the build output.
C18_OkMeansAllArtifacts ==
    (rPc = "done" /\ rRet = "Ok") =>
        /\ DOMAIN rArtifacts = DOMAIN rInput
        /\ DOMAIN rPrinted = DOMAIN rInput
        /\ rOutputFile => DOMAIN rWritten = DOMAIN rInput

\* What one push of run r did, for the artifacts of the build output.
FirstPublish(p) ==
    /\ p.ret = "Pushed"
    /\ p.uploads = p.layers /\ p.found = 0
    /\ p.config = 1 /\ p.manifest = 1

Republish(p) ==
    /\ Probes(p) = 0 /\ p.uploads = 0
    /\ p.config = 0 /\ p.manifest = 0
    /\ p.pc = "done" => p.ret = "Skipped"

\* C15: against a registry stub that starts without the tag and afterwards
\* reports the pushed digest, the first publish of an image uploads each of
\* its layers once (one upload for a single-layer image), the config once and
\* the manifest once, and yields repo/artifact:tag@digest; publishing the same
\* image again uploads nothing and yields the same reference.
C15_PublishTwice ==
    /\ (runNo = 1 /\ rPc = "done" /\ rRet = "Ok") =>
          \A a \in DOMAIN rInput :
              /\ FirstPublish(push[a])
              /\ rArtifacts[a] = <<RunRepo, "/", a, ":", RunTag, "@", RunDigest>>
    /\ runNo = 2 =>
          /\ \A a \in DOMAIN rInput :
                 FirstPublish(firstRun.pushes[a]) /\ Republish(push[a])
          /\ (rPc = "done" /\ rRet = "Ok") => rArtifacts = firstRun.artifacts

C15_Witness ==
    /\ runNo = 2 /\ rPc = "done" /\ rRet = "Ok"
    /\ \E a \in DOMAIN rArtifacts :
         /\ rInput[a].layers = 1
         /\ firstRun.pushes[a].uploads = 1
         /\ push[a].ret = "Skipped"

Loaded == lRet.err # "none"
ManifestFile(i) == lLayout.blobs[lLayout.manifests[i].digest]
Parses(i) == ManifestFile(i).kind = "json"

\* C11: load_from_path verifies content integrity: the bytes of every layer of
\* a loaded image have the length and the digest of the manifest's layer
\* descriptor, and a layout with a blob file whose content does not match its
\* descriptor makes load_from_path fail.
C11_ContentIntegrity ==
    (Loaded /\ lRet.ok) =>
        \A i \in 1..Len(lRet.images) :
            \A k \in 1..Len(lRet.images[i].layers) :
                LET desc == lRet.images[i].manifest.layers[k]
                    data == lRet.images[i].layers[k].data
                IN sha256(data) = desc.digest /\ Len(data) = desc.size

\* Entry i of index.json cannot be read in: its manifest file is absent or
\* does not parse, or the blob file of one of its layers or of its config is
\* absent.
EntryBroken(i) ==
    \/ ~Parses(i)
    \/ \E k \in 1..Len(ManifestFile(i).logical.layers) :
          lLayout.blobs[ManifestFile(i).logical.layers[k].digest].kind = "absent"
    \/ lLayout.blobs[ManifestFile(i).logical.config.digest].kind = "absent"

C17_DigestDeterminism ==
    (Loaded /\ lRet.ok) =>
        \A i, j \in 1..Len(lRet.images) :
            ManifestFile(i).logical = ManifestFile(j).logical
                => lRet.images[i].digest = lRet.images[j].digest

C17_Witness ==
    /\ Loaded /\ lRet.ok
    /\ \E i, j \in 1..Len(lRet.images) :
         /\ ManifestFile(i).logical = ManifestFile(j).logical
         /\ ManifestFile(i).form # ManifestFile(j).form
         /\ lLayout.manifests[i].digest # lLayout.manifests[j].digest
         /\ lLayout.manifests[i].platform # lLayout.manifests[j].platform
         /\ Len(lRet.images[i].layers) = 2
         /\ lRet.images[i].digest = lRet.images[j].digest

\* The layer batch of a push is over and each of its layers went through.
LayersSucceeded(p) ==
    /\ p.done = p.layers /\ p.pending = 0
    /\ p.probing = 0 /\ p.uploading = 0

PastLayers(p) ==
    \/ p.pc \in {"config", "manifest"}
    \/ p.ret = "Pushed"
    \/ p.failed \in {"config", "manifest"}

\* C21: in a push that is not skipped and whose layer operations all succeed
\* the config blob is uploaded exactly once, with no existence probe and also
\* when the registry already holds it; the upload starts after the layer batch
\* and is over before the manifest upload starts.
C21_ConfigUpload ==
    \A a \in Arts :
        LET p == push[a] IN
        /\ p.config <= 1
        /\ PastLayers(p) => p.config = 1 /\ LayersSucceeded(p) /\ ~SameDigest(p)
        /\ p.config > 0 => LayersSucceeded(p)
        /\ p.pc = "config" => p.manifest = 0 /\ ~p.configDone
        /\ p.manifest > 0 => p.config = 1 /\ p.configDone

C21_Witness ==
    \E a \in Arts :
        /\ push[a].pc = "config" /\ regConfig[a]
        /\ push[a].layers > 0 /\ push[a].config = 1

\* A request of the push went to the registry: the digest lookup, a blob probe
\* or upload, the config upload or the manifest upload.
Requested(p) ==
    \/ p.resolved # "-"
    \/ Probes(p) > 0 \/ p.probing > 0 \/ p.uploading > 0 \/ p.uploads > 0
    \/ p.config > 0 \/ p.manifest > 0

\* C22: push stores the resolved authentication for the registry host before
\* any other request of the call: before the digest lookup, before every blob
\* probe and upload, and before the manifest upload.
C22_AuthFirst ==
    \A a \in Arts : Requested(push[a]) => push[a].auth

C22_Witness ==
    \E a \in Arts :
        /\ push[a].auth /\ push[a].ret = "Pushed"
        /\ push[a].uploads > 0 /\ push[a].found > 0

\* The push ran to its end with no failed step and no panic.
NoStepFailed(p) == p.pc = "done" /\ p.failed = "-" /\ p.ret # "Panic"

\* C27: push skips exactly when the registry reports for the reference a
\* digest equal to Image.digest. When the reference does not exist or points
\* to another digest the push is not skipped and, if no step fails, ends with
\* the manifest uploaded under the reference, which now points to the image,
\* and returns the pushed result.
C27_SkipIffSameDigest ==
    \A a \in Arts :
        LET p == push[a] IN
        /\ p.ret = "Skipped" <=> SameDigest(p)
        /\ (NoStepFailed(p) /\ ~SameDigest(p)) =>
               /\ p.ret = "Pushed" /\ p.manifest = 1
               /\ regTag[a] = p.digest

C27_Witness ==
    \E a \in Arts :
        /\ push[a].ret = "Pushed"
        /\ push[a].remote \notin {0, push[a].digest}
        /\ regTag[a] = push[a].digest

\* The layer blob operations of a push that are in flight, and their total
\* over the pushes of a set of artifacts.
InFlight(p) == p.probing + p.uploading

RECURSIVE TotalInFlight(_)
TotalInFlight(S) ==
    IF S = {} THEN 0
    ELSE LET a == CHOOSE x \in S : TRUE
         IN InFlight(push[a]) + TotalInFlight(S \ {a})

Publishing == {a \in Arts : push[a].pc # "idle"}

\* C26: the limit of 16 layer operations holds per push call and is not
\* shared: with K artifacts publishing side by side at most K*16 layer
\* operations are in flight in total, each push staying within 16.
C26_LimitPerPush ==
    /\ \A a \in Arts : InFlight(push[a]) <= BufferLimit
    /\ TotalInFlight(Publishing) <= Cardinality(Publishing) * BufferLimit

\* Two artifacts publish and more than 16 operations are in flight in total.
C26_Witness ==
    /\ Cardinality(Publishing) = 2
    /\ TotalInFlight(Publishing) > BufferLimit
    /\ \E a \in Publishing : InFlight(push[a]) = BufferLimit

\* The text of a repository string before its first '/': the longest prefix
\* without '/' that ends the string or is followed by '/'.
HostPart(repo) ==
    CHOOSE h \in Hosts :
        /\ Len(h) <= Len(repo)
        /\ \A i \in DOMAIN h : h[i] = repo[i]
        /\ Len(h) = Len(repo) \/ repo[Len(h) + 1] = "/"

Answer == get_credential(callArgs.config, HostPart(callArgs.repo))

\* C23: load_credentials asks for the credentials of the host part of the
\* repository, the text before the first '/'. A username/password entry
\* yields Basic auth; a helper failure, a missing docker config or no
\* credential configured for the host yields Anonymous auth as a success;
\* only the remaining retrieval errors are returned as errors.
C23_LoadCredentials ==
    callPc = "ret" =>
        /\ Answer = "UsernamePassword" =>
               callRet.tag = "Ok" /\ callRet.auth = <<"Basic", "user", "pass">>
        /\ Answer \in {"HelperFailure", "ConfigNotFound", "NoCredentialConfigured"} =>
               callRet.tag = "Ok" /\ callRet.auth = <<"Anonymous">>
        /\ callRet.tag = "Err" <=>
               Answer \in {"ConfigReadError", "CredentialDecodingError",
                           "HelperCommunicationError", "MalformedHelperResponse"}
        /\ callRet.tag = "Err" => callRet.err = Answer

C23_Witness ==
    /\ callPc = "ret"
    /\ Len(callArgs.repo) > Len(callArgs.config.host) /\ callArgs.config.host # <<>>
    /\ callArgs.config.host = HostPart(callArgs.repo)
    /\ callRet.tag = "Ok" /\ callRet.auth[1] = "Basic"

\* The images of the list whose platform has the requested os and
\* architecture, and those without a platform.
OfPlatform ==
    {i \in DOMAIN callArgs.images :
        LET p == callArgs.images[i].platform
        IN /\ p # NoPlatform /\ Len(callArgs.platform) = 3
           /\ p.os = callArgs.platform[1] /\ p.architecture = callArgs.platform[3]}
Independent == {i \in DOMAIN callArgs.images : callArgs.images[i].platform = NoPlatform}
First(S) == CHOOSE i \in S : \A j \in S : i <= j

\* C25: find_image hands over exactly one image: the first image whose
\* os/architecture is the requested platform string if there is one, wherever
\* the platform-independent images stand and whatever its variant; otherwise
\* the first image without a platform; otherwise it fails with
\* NoImage(platform).
C25_FindImage ==
    callPc = "ret" =>
        IF OfPlatform # {}
        THEN callRet.ok /\ callRet.image = callArgs.images[First(OfPlatform)]
        ELSE IF Independent # {}
        THEN callRet.ok /\ callRet.image = callArgs.images[First(Independent)]
        ELSE ~callRet.ok /\ callRet.err = <<"NoImage", callArgs.platform>>

\* A platform-independent image stands before the image of the requested
\* platform, which has a variant and is not the first of its os.
C25_Witness ==
    /\ callPc = "ret" /\ callRet.ok
    /\ callRet.image.platform.variant = "v8"
    /\ callRet.image.id = 3
    /\ callArgs.images[1].platform = NoPlatform

\* The bytes of the file under blobs/ that a digest names.
BlobData(digest) == lLayout.blobs[digest].data

\* C24: in every Image that load_from_path returns, `layers` has the length and
\* the order of manifest.layers: layers[i] holds the bytes of the blob that
\* manifest.layers[i].digest names, with that descriptor's media type and
\* annotations; the config has the media type and the annotations of the
\* manifest's config descriptor; and the images come one per index entry, in
\* index order, each with the platform of its entry.
C24_LoadedImageShape ==
    (Loaded /\ lRet.ok) =>
        /\ Len(lRet.images) = Len(lLayout.manifests)
        /\ \A i \in 1..Len(lRet.images) :
             LET image == lRet.images[i]
                 descs == image.manifest.layers
             IN /\ image.manifest = ManifestFile(i).logical
                /\ image.platform = lLayout.manifests[i].platform
                /\ Len(image.layers) = Len(descs)
                /\ \A k \in 1..Len(descs) :
                     /\ image.layers[k].data = BlobData(descs[k].digest)
                     /\ image.layers[k].media_type = descs[k].media_type
                     /\ image.layers[k].annotations = descs[k].annotations
                /\ image.config.media_type = image.manifest.config.media_type
                /\ image.config.annotations = image.manifest.config.annotations

\* Two images are loaded, the first from the entry without a platform; an
\* image has two different layers, one of them annotated.
C24_Witness ==
    /\ Loaded /\ lRet.ok /\ Len(lRet.images) = 2
    /\ lRet.images[1].platform = "none" /\ lRet.images[2].platform = "target"
    /\ Len(lRet.images[2].layers) = 2
    /\ lRet.images[2].layers[1].annotations.some
    /\ ~lRet.images[2].layers[2].annotations.some

\* The set.spawn calls made for a target.
SpawnsOf(t) == {i \in DOMAIN spawned : spawned[i].ctx.name = t}

\* C28: when every backend initialization succeeds, build spawns exactly one
\* task per configured target, on the backend of the target's Build variant,
\* with the target's name and the requested platform; no target is skipped
\* and none is built twice.
C28_OneTaskPerTarget ==
    /\ \A t \in Names : Cardinality(SpawnsOf(t)) <= 1
    /\ (pc \in {"join", "done"} /\ ~InitFailed) =>
           /\ Len(spawned) = Len(services)
           /\ \A t \in DOMAIN services :
                /\ task[t] # "none"
                /\ \E i \in DOMAIN spawned :
                     /\ SpawnsOf(t) = {i}
                     /\ spawned[i].backend = services[t]
                     /\ spawned[i].ctx.platform = BuildPlatform

C28_Witness ==
    /\ pc = "join" /\ Len(services) = MaxTargets
    /\ services[1] # services[2]
    /\ Len(spawned) = MaxTargets

\* C29: MetaBuild::build returns Ok(output) only if every spawned task was
\* joined, had finished successfully and had its result merged into output; a
\* task whose join yields a join error never leads to an Ok result that lacks
\* its artifacts and those of the tasks not yet joined.
C29_OkMeansAllJoined ==
    (pc = "done" /\ ret.tag = "Ok") =>
        \A t \in Spawned :
            /\ task[t] = "joined"
            /\ taskRes[t].tag = "ok"
            /\ DOMAIN taskRes[t].out \subseteq DOMAIN ret.out

\* A build target failed: its task returned an error, panicked, or was
\* aborted before it finished.
TargetFailed(t) == taskRes[t].tag \in {"err", "panic"} \/ task[t] = "aborted"

\* C30: the publish stage of run starts only after the build dispatcher has
\* returned success for the whole run: no registry request of any artifact is
\* made while a build task is still running, and if any build target failed
\* nothing at all is pushed.
C30_PublishAfterBuildSuccess ==
    \A a \in Arts :
        (push[a].auth \/ Requested(push[a])) =>
            /\ pc = "done" /\ ret.tag = "Ok"
            /\ \A t \in Names : task[t] # "running"
            /\ \A t \in Names : ~TargetFailed(t)

\* ImageLayer::sha256_digest: "sha256:" and the hex sha256 of the layer's data
sha256_digest(layer) == sha256(layer.data)

\* `layer_desc.iter().find(|l| l.digest == digest)`: the first descriptor of
\* manifest.layers with that digest, 0 for None (on which unwrap panics).
find_desc(layer_desc, digest) ==
    LET S == {k \in DOMAIN layer_desc : layer_desc[k].digest = digest}
    IN IF S = {} THEN 0 ELSE CHOOSE k \in S : \A j \in S : k <= j

\* C31: for every Image that load_from_path returns, the lookup that push
\* makes for each layer, of the manifest layer descriptor whose digest is the
\* sha256 of the layer's bytes, finds a descriptor, so that its unwrap cannot
\* fail and push ends by returning Ok or Err.
C31_LayerLookupFinds ==
    (Loaded /\ lRet.ok) =>
        \A i \in 1..Len(lRet.images) :
            \A k \in 1..Len(lRet.images[i].layers) :
                find_desc(lRet.images[i].manifest.layers,
                          sha256_digest(lRet.images[i].layers[k])) # 0

\* C32: if find_image fails with NoImage for an artifact of the build output,
\* run returns that error without any artifact having been pushed: no push
\* task of another artifact has been started or has made a registry request
\* by then.
C32_NoImageBeforePushes ==
    rRet = "NoImage" =>
        \A a \in Arts :
            /\ push[a].pc = "idle"
            /\ ~push[a].auth /\ ~Requested(push[a])

\* The releases whose deployment ended with an error.
FailedReleases == {r \in DOMAIN dep.releases : dep.res[r] = "err"}
DeployReturned == dep.pc = "done" /\ dep.ret \in {"Ok", "Multi"}

C34_EnsureReachable ==
    /\ ~dep.unreachable
    /\ dep.inits <= 1
    /\ dep.pc \in {"spawn", "join"} /\ dep.releases # <<>> => dep.helm # 0
    /\ (\E r \in Releases : dep.task[r] # "none") =>
           dep.validated = DOMAIN dep.releases

\* Two releases were validated with one initialization and both deployed.
C34_Witness ==
    /\ dep.pc = "done" /\ dep.ret = "Ok"
    /\ Len(dep.releases) = 2
    /\ dep.inits = 1
    /\ \A r \in Releases : dep.task[r] = "joined"

\* C37: load_credentials returns a value, an auth or an error, for every
\* outcome of the credential lookup, a stored identity token included; no
\* outcome makes it abort the process.
C37_LoadCredentialsReturns ==
    callPc = "ret" /\ callArgs \in [repo : Repos, config : [host : Hosts, answer : Retrieved]] =>
        callRet.tag \in {"Ok", "Err"}

\* run is past `let Some(repo) = repo.or(default_repo) else { .. }`.
RepoDecided ==
    rPc \in {"spawn", "join", "after"} \/ (rPc = "done" /\ rRet # "Build")

C38_NoRepoReached ==
    /\ app.pc = "build" /\ app.repo = "None" /\ app.default_repo = "None"
    /\ rPc = "done" /\ rRet = "Ok"
    /\ ret.tag = "Ok" /\ DOMAIN ret.out # {}

\* C35: in the run command the deploy stage starts only after the
\* build-and-publish stage has returned success and has written the artifact
\* list to the temporary output file; with neither --repo nor a default repo
\* the command fails with RepoRequired before any build starts, so deploy
\* never reads an output file that the build stage did not write.
C35_DeployAfterPublish ==
    /\ dep.pc # "idle" =>
           /\ app.pc \in {"deploy", "done"}
           /\ pc = "done" /\ ret.tag = "Ok"
           /\ rPc = "done" /\ rRet = "Ok"
           /\ rOutputFile /\ rWritten = rArtifacts
    /\ app.repo = "None" /\ app.default_repo = "None" =>
           /\ pc = "idle" /\ rPc = "idle" /\ dep.pc = "idle"
           /\ app.ret \in {"none", "TempFile", "Config", "RepoRequired"}

\* An artifact was built, published and written to the output file, and the
\* deploy stage read the file and deployed a release.
C35_Witness ==
    /\ app.pc = "done" /\ app.ret = "Ok"
    /\ rWritten # NoArtifacts /\ rWritten = rArtifacts
    /\ dep.ret = "Ok" /\ \E r \in Releases : dep.task[r] = "joined"

\* The child cannot take a step: it has output left, and every stream it has
\* output left for is a pipe that is full.
ChildBlocked ==
    /\ exe.child = "running"
    /\ exe.out > 0 \/ exe.err > 0
    /\ exe.out > 0 => ~pipe_room(exe.stdout)
    /\ exe.err > 0 => ~pipe_room(exe.stderr)

\* C36: run_with_output eventually returns for every child that would exit
\* once its output is consumed, whatever amount it writes to stdout and
\* stderr: waiting for the child's exit before reading its pipes never meets
\* a child that is itself blocked writing to a full pipe.
C36_WaitNeverBlocked == ~(exe.pc = "wait" /\ ChildBlocked)
====
